---- MODULE Spec2Model ----
(***************************************************************************)
(* Voice lesson planner: the dialogue stage machine of src/main.py         *)
(* (ConversationState, parse_user_response, the voicemessage and           *)
(* disconnect Socket.IO handlers) as a state machine.                      *)
(*                                                                         *)
(* A Python str is a sequence of characters.  An ASCII character is the    *)
(* one-character string; a Devanagari character is named by its code       *)
(* point ("u0939").  An Optional or dynamically typed Python value is a    *)
(* tagged record (None, StrV, IntV, BoolV).                                *)
(***************************************************************************)
EXTENDS Integers, Sequences, FiniteSets, Bags, TLC

\* ------------------------------------------------------------------------
\* Python values
\* ------------------------------------------------------------------------
None == [kind |-> "None"]
StrV(s) == [kind |-> "str", str |-> s]
IntV(n) == [kind |-> "int", int |-> n]
BoolV(b) == [kind |-> "bool", bool |-> b]

\* ------------------------------------------------------------------------
\* str methods used by the handlers
\* ------------------------------------------------------------------------
UpperLetters ==
  <<"A","B","C","D","E","F","G","H","I","J","K","L","M",
    "N","O","P","Q","R","S","T","U","V","W","X","Y","Z">>
LowerLetters ==
  <<"a","b","c","d","e","f","g","h","i","j","k","l","m",
    "n","o","p","q","r","s","t","u","v","w","x","y","z">>
AsciiDigits == <<"0","1","2","3","4","5","6","7","8","9">>
\* the Devanagari digits U+0966..U+096F: str.isdigit, \d and int() take them
DevanagariDigits ==
  <<"u0966","u0967","u0968","u0969","u096A","u096B","u096C","u096D","u096E","u096F">>

IndexIn(c, seq) == CHOOSE i \in 1..Len(seq) : seq[i] = c
IsIn(c, seq) == \E i \in 1..Len(seq) : seq[i] = c

IsUpper(c) == IsIn(c, UpperLetters)
IsLower(c) == IsIn(c, LowerLetters)
IsSpace(c) == c \in {" ", "\t", "\n", "\r"}
IsDigit(c) == IsIn(c, AsciiDigits) \/ IsIn(c, DevanagariDigits)
DigitVal(c) ==
  IF IsIn(c, AsciiDigits) THEN IndexIn(c, AsciiDigits) - 1
  ELSE IndexIn(c, DevanagariDigits) - 1

LowerChar(c) == IF IsUpper(c) THEN LowerLetters[IndexIn(c, UpperLetters)] ELSE c
UpperChar(c) == IF IsLower(c) THEN UpperLetters[IndexIn(c, LowerLetters)] ELSE c

\* str.lower()
lower(s) == [i \in 1..Len(s) |-> LowerChar(s[i])]

\* str.strip(): leading and trailing whitespace removed
strip(s) ==
  LET keep == {i \in 1..Len(s) : ~IsSpace(s[i])}
  IN  IF keep = {} THEN <<>>
      ELSE SubSeq(s, CHOOSE i \in keep : \A j \in keep : i <= j,
                     CHOOSE i \in keep : \A j \in keep : j <= i)

\* sub in s
Contains(sub, s) ==
  \E i \in 0..(Len(s) - Len(sub)) : SubSeq(s, i + 1, i + Len(sub)) = sub

\* any(w in s for w in words)
ContainsAny(words, s) == \E k \in 1..Len(words) : Contains(words[k], s)

\* str.title(): a cased character is upper-cased when the character before it
\* is not cased, lower-cased otherwise
title(s) ==
  [i \in 1..Len(s) |->
     LET cased(c) == IsUpper(c) \/ IsLower(c)
     IN  IF i > 1 /\ cased(s[i - 1]) THEN LowerChar(s[i]) ELSE UpperChar(s[i])]

\* re.findall(r"\d+", s): the maximal runs of digits, left to right
RECURSIVE findall_digits(_)
findall_digits(s) ==
  IF \A i \in 1..Len(s) : ~IsDigit(s[i]) THEN <<>>
  ELSE LET first == CHOOSE i \in 1..Len(s) :
                      IsDigit(s[i]) /\ \A j \in 1..(i - 1) : ~IsDigit(s[j])
           last  == CHOOSE k \in first..Len(s) :
                      /\ \A j \in first..k : IsDigit(s[j])
                      /\ (k = Len(s) \/ ~IsDigit(s[k + 1]))
       IN  <<SubSeq(s, first, last)>> \o findall_digits(SubSeq(s, last + 1, Len(s)))

\* int(run) of a run of digits
RECURSIVE int(_)
int(run) ==
  IF Len(run) = 0 THEN 0
  ELSE 10 * int(SubSeq(run, 1, Len(run) - 1)) + DigitVal(run[Len(run)])

\* str(n) for n >= 0
RECURSIVE str(_)
str(n) ==
  IF n < 10 THEN <<AsciiDigits[n + 1]>>
  ELSE str(n \div 10) \o <<AsciiDigits[(n % 10) + 1]>>

\* ------------------------------------------------------------------------
\* Literals of parse_user_response
\* ------------------------------------------------------------------------
RESTART == <<"R","E","S","T","A","R","T">>
english == <<"e","n","g","l","i","s","h">>
hindi == <<"h","i","n","d","i">>

\* ["start over", "restart", "शुरू करो", "फिर से"]
restart_cmds ==
  << <<"s","t","a","r","t"," ","o","v","e","r">>,
     <<"r","e","s","t","a","r","t">>,
     <<"u0936","u0941","u0930","u0942"," ","u0915","u0930","u094B">>,
     <<"u092B","u093F","u0930"," ","u0938","u0947">> >>

inglish_hi == <<"u0907","u0902","u0917","u094D","u0932","u093F","u0936">>
hindi_hi == <<"u0939","u093F","u0902","u0926","u0940">>
vigyan_hi == <<"u0935","u093F","u091C","u094D","u091E","u093E","u0928">>

Mathematics == <<"M","a","t","h","e","m","a","t","i","c","s">>
Science == <<"S","c","i","e","n","c","e">>
English == <<"E","n","g","l","i","s","h">>
Hindi == <<"H","i","n","d","i">>
SocialScience == <<"S","o","c","i","a","l"," ","S","c","i","e","n","c","e">>
History == <<"H","i","s","t","o","r","y">>
Geography == <<"G","e","o","g","r","a","p","h","y">>
Physics == <<"P","h","y","s","i","c","s">>
Chemistry == <<"C","h","e","m","i","s","t","r","y">>
Biology == <<"B","i","o","l","o","g","y">>
ComputerScience == <<"C","o","m","p","u","t","e","r"," ","S","c","i","e","n","c","e">>

\* subjects_map, in insertion order (dict iteration order)
subjects_map ==
  << [key |-> <<"m","a","t","h">>, value |-> Mathematics],
     [key |-> <<"m","a","t","h","s">>, value |-> Mathematics],
     [key |-> <<"u0917","u0923","u093F","u0924">>, value |-> Mathematics],
     [key |-> <<"s","c","i","e","n","c","e">>, value |-> Science],
     [key |-> vigyan_hi, value |-> Science],
     [key |-> english, value |-> English],
     [key |-> <<"u0905","u0902","u0917","u094D","u0930","u0947","u091C","u0940">>, value |-> English],
     [key |-> hindi, value |-> Hindi],
     [key |-> hindi_hi, value |-> Hindi],
     [key |-> <<"s","o","c","i","a","l">>, value |-> SocialScience],
     [key |-> <<"u0938","u093E","u092E","u093E","u091C","u093F","u0915">>, value |-> SocialScience],
     [key |-> <<"h","i","s","t","o","r","y">>, value |-> History],
     [key |-> <<"u0907","u0924","u093F","u0939","u093E","u0938">>, value |-> History],
     [key |-> <<"g","e","o","g","r","a","p","h","y">>, value |-> Geography],
     [key |-> <<"u092D","u0942","u0917","u094B","u0932">>, value |-> Geography],
     [key |-> <<"p","h","y","s","i","c","s">>, value |-> Physics],
     [key |-> <<"u092D","u094C","u0924","u093F","u0915","u0940">>, value |-> Physics],
     [key |-> <<"c","h","e","m","i","s","t","r","y">>, value |-> Chemistry],
     [key |-> <<"u0930","u0938","u093E","u092F","u0928">>, value |-> Chemistry],
     [key |-> <<"b","i","o","l","o","g","y">>, value |-> Biology],
     [key |-> <<"u091C","u0940","u0935"," ">> \o vigyan_hi, value |-> Biology],
     [key |-> <<"c","o","m","p","u","t","e","r">>, value |-> ComputerScience],
     [key |-> <<"u0915","u0902","u092A","u094D","u092F","u0942","u091F","u0930">>, value |-> ComputerScience] >>

\* ["yes", "yeah", "correct", "right", "okay", "ok", "sure", "हां", "हाँ", "सही", "ठीक", "जी"]
yes_words ==
  << <<"y","e","s">>, <<"y","e","a","h">>, <<"c","o","r","r","e","c","t">>,
     <<"r","i","g","h","t">>, <<"o","k","a","y">>, <<"o","k">>, <<"s","u","r","e">>,
     <<"u0939","u093E","u0902">>, <<"u0939","u093E","u0901">>,
     <<"u0938","u0939","u0940">>, <<"u0920","u0940","u0915">>, <<"u091C","u0940">> >>

\* ["no", "नहीं", "गलत", "wrong", "नही"]
no_words ==
  << <<"n","o">>, <<"u0928","u0939","u0940","u0902">>, <<"u0917","u0932","u0924">>,
     <<"w","r","o","n","g">>, <<"u0928","u0939","u0940">> >>

ClassPrefix == <<"C","l","a","s","s"," ">>

Result(v, c) == [value |-> v, needs_clarification |-> c]

\* numbers = re.findall(r"\d+", transcript); int(numbers[0])
HasNumber(transcript) == Len(findall_digits(transcript)) > 0
FirstNumber(transcript) == int(findall_digits(transcript)[1])

\* if any(cmd in transcript_lower for cmd in [...])
is_restart(transcript_lower) == ContainsAny(restart_cmds, transcript_lower)

\* if stage == "LANGUAGE_SELECTION"
parse_language(transcript_lower) ==
  IF Contains(english, transcript_lower) \/ Contains(inglish_hi, transcript_lower)
    THEN Result(StrV(english), FALSE)
  ELSE IF Contains(hindi, transcript_lower) \/ Contains(hindi_hi, transcript_lower)
    THEN Result(StrV(hindi), FALSE)
  ELSE Result(None, TRUE)

\* parse_topic asking again for a topic of fewer than 5 characters
parse_topic_of_5(transcript) ==
  Result(StrV(strip(transcript)), Len(strip(transcript)) < 5)

\* if stage == "TOPIC_COLLECTION"
parse_topic(transcript) ==
  Result(StrV(strip(transcript)), Len(strip(transcript)) < 3)

\* parse_subject with the last key of the table that occurs winning
parse_subject_last_key(transcript, transcript_lower) ==
  IF \E k \in 1..Len(subjects_map) : Contains(subjects_map[k].key, transcript_lower)
    THEN LET k == CHOOSE k \in 1..Len(subjects_map) :
                    /\ Contains(subjects_map[k].key, transcript_lower)
                    /\ \A j \in (k + 1)..Len(subjects_map) :
                         ~Contains(subjects_map[j].key, transcript_lower)
         IN  Result(StrV(subjects_map[k].value), FALSE)
  ELSE IF Len(strip(transcript)) > 2 THEN Result(StrV(title(strip(transcript))), FALSE)
  ELSE Result(None, TRUE)

\* if stage == "SUBJECT_COLLECTION"
parse_subject(transcript, transcript_lower) ==
  IF \E k \in 1..Len(subjects_map) : Contains(subjects_map[k].key, transcript_lower)
    THEN LET k == CHOOSE k \in 1..Len(subjects_map) :
                    /\ Contains(subjects_map[k].key, transcript_lower)
                    /\ \A j \in 1..(k - 1) : ~Contains(subjects_map[j].key, transcript_lower)
         IN  Result(StrV(subjects_map[k].value), FALSE)
  ELSE IF Len(strip(transcript)) > 2 THEN Result(StrV(title(strip(transcript))), FALSE)
  ELSE Result(None, TRUE)

\* parse_class with the upper limit of the duration stage
parse_class_to_90(transcript) ==
  IF HasNumber(transcript) /\ 1 <= FirstNumber(transcript) /\ FirstNumber(transcript) <= 90
    THEN Result(StrV(ClassPrefix \o str(FirstNumber(transcript))), FALSE)
  ELSE Result(None, TRUE)

\* if stage == "CLASS_COLLECTION"
parse_class(transcript) ==
  IF HasNumber(transcript) /\ 1 <= FirstNumber(transcript) /\ FirstNumber(transcript) <= 12
    THEN Result(StrV(ClassPrefix \o str(FirstNumber(transcript))), FALSE)
  ELSE Result(None, TRUE)

\* parse_duration taking the last run of digits
parse_duration_last_run(transcript) ==
  LET runs == findall_digits(transcript) IN
  IF runs # <<>> /\ 15 <= int(runs[Len(runs)]) /\ int(runs[Len(runs)]) <= 90
    THEN Result(IntV(int(runs[Len(runs)])), FALSE)
  ELSE Result(None, TRUE)

\* if stage == "SESSION_DURATION"
parse_duration(transcript) ==
  IF HasNumber(transcript) /\ 15 <= FirstNumber(transcript) /\ FirstNumber(transcript) <= 90
    THEN Result(IntV(FirstNumber(transcript)), FALSE)
  ELSE Result(None, TRUE)

\* if stage == "NUM_SESSIONS"
parse_num_sessions(transcript) ==
  IF HasNumber(transcript) /\ 1 <= FirstNumber(transcript) /\ FirstNumber(transcript) <= 10
    THEN Result(IntV(FirstNumber(transcript)), FALSE)
  ELSE Result(None, TRUE)

\* if stage == "CONFIRMATION"
parse_confirmation(transcript_lower) ==
  IF ContainsAny(yes_words, transcript_lower) THEN Result(BoolV(TRUE), FALSE)
  ELSE IF ContainsAny(no_words, transcript_lower) THEN Result(BoolV(FALSE), FALSE)
  ELSE Result(None, TRUE)

\* language_mode is a parameter the function never reads
parse_user_response(transcript, stage, language_mode) ==
  LET transcript_lower == strip(lower(transcript)) IN
  IF is_restart(transcript_lower) THEN Result(StrV(RESTART), FALSE)
  ELSE IF stage = "LANGUAGE_SELECTION" THEN parse_language(transcript_lower)
  ELSE IF stage = "TOPIC_COLLECTION" THEN parse_topic(transcript)
  ELSE IF stage = "SUBJECT_COLLECTION" THEN parse_subject(transcript, transcript_lower)
  ELSE IF stage = "CLASS_COLLECTION" THEN parse_class(transcript)
  ELSE IF stage = "SESSION_DURATION" THEN parse_duration(transcript)
  ELSE IF stage = "NUM_SESSIONS" THEN parse_num_sessions(transcript)
  ELSE IF stage = "CONFIRMATION" THEN parse_confirmation(transcript_lower)
  ELSE Result(None, TRUE)

\* ------------------------------------------------------------------------
\* Bounds and input sets
\* ------------------------------------------------------------------------
\* voicemessage handlers that may be suspended at an await at the same time
MaxInFlight == 2

\* the sessions of the dialogue specification
Sids == {"s1"}
\* the values uuid4()[:8] is drawn from
LessonIds == {"id1", "id2"}

\* data["audio"]: missing or empty, well-formed base64, base64 b64decode rejects
AudioInputs == {"empty", "valid", "invalid"}

\* the utterances of the end-to-end scenario that the dialogue below lacks:
\* "hindi", "science", "4", the topics प्रकाश संश्लेषण and नदी, and हाँ
prakash_sanshleshan ==
  <<"u092A","u094D","u0930","u0915","u093E","u0936"," ",
    "u0938","u0902","u0936","u094D","u0932","u0947","u0937","u0923">>
nadi == <<"u0928","u0926","u0940">>
haan == <<"u0939","u093E","u0901">>
ScenarioTopics == {prakash_sanshleshan, nadi}
ScenarioTexts ==
  {hindi, <<"s","c","i","e","n","c","e">>, <<"4">>, haan} \cup ScenarioTopics

\* the texts the speech-to-text provider answers with in the dialogue
DialogueTexts ==
  { <<>>,
    <<" ">>,
    <<"H","i","n","d","i">>,
    <<" ","e","n","g","l","i","s","h">>,
    <<"R","e","s","t","a","r","t">>,
    <<"u092B","u093F","u0930"," ","u0938","u0947">>,
    <<"7">>,
    <<"4","0">>,
    <<"o","k">>,
    <<"u091C","u0940">>,
    <<"n","o">> }

\* the texts the speech-to-text provider answers with
RawTexts == DialogueTexts \cup ScenarioTexts

\* what requests.post(...) comes back with: the transport raising, an HTTP
\* error status, or a JSON body whose "text" is missing or a string
SttResponses ==
  {[status |-> "timeout"], [status |-> "http_error"], [status |-> "ok", text |-> None]}
    \cup {[status |-> "ok", text |-> StrV(t)] : t \in RawTexts}

\* ------------------------------------------------------------------------
\* ConversationState and PROMPTS
\* ------------------------------------------------------------------------
StageOrder ==
  <<"LANGUAGE_SELECTION", "TOPIC_COLLECTION", "SUBJECT_COLLECTION", "CLASS_COLLECTION",
    "SESSION_DURATION", "NUM_SESSIONS", "CONFIRMATION">>
Stages == {StageOrder[i] : i \in 1..Len(StageOrder)}

DefaultSessionDuration == 40
DefaultNumSessions == 4

\* ConversationState starting at the stage after the language selection
ConversationState_at_topic(sid) ==
  [ sid |-> sid,
    stage |-> "TOPIC_COLLECTION",
    language_mode |-> None,
    data |-> [ topic |-> None, subject |-> None, class_level |-> None,
               session_duration |-> DefaultSessionDuration,
               num_sessions |-> DefaultNumSessions,
               language |-> English ] ]

\* ConversationState.__init__.  The history list is appended to and never
\* read by any handler; it is left out of the state.
ConversationState(sid) ==
  [ sid |-> sid,
    stage |-> "LANGUAGE_SELECTION",
    language_mode |-> None,
    data |-> [ topic |-> None, subject |-> None, class_level |-> None,
               session_duration |-> DefaultSessionDuration,
               num_sessions |-> DefaultNumSessions,
               language |-> English ] ]

\* a key that is not in a dict
Absent == [kind |-> "absent"]
NoArgs == [kind |-> "noargs"]

\* a message text: the literal of the source it is (key), the language variant
\* of that literal, and the values formatted into it
Text(key, variant, args) == [key |-> key, variant |-> variant, args |-> args]

\* PROMPTS[stage][language_mode]: the dict has the keys "english" and "hindi"
\* for every stage; the CONFIRMATION entries are lambdas of the data
PromptLanguages == {StrV(english), StrV(hindi)}
PROMPTS(stage, lang) == Text(stage, lang.str, NoArgs)
PROMPTS_CONFIRMATION(lang, d) == Text("CONFIRMATION", lang.str, d)

\* X if state.language_mode == "english" else Y
Localized(key, language_mode) ==
  Text(key, IF language_mode = StrV(english) THEN english ELSE hindi, NoArgs)

\* the payload of sio.emit("airesponse", {...}, room=sid)
Message(sid, text, language, downloadid) ==
  [room |-> sid, text |-> text, speak |-> TRUE, language |-> language, downloadid |-> downloadid]

\* the except branch of voicemessage: f"Error: {str(e)}", e left out
ErrorMessage(sid) == Message(sid, Text("ERROR", english, NoArgs), English, None)

\* transcribe_audio_with_groq: raises when the transport raises or the status
\* is not ok, else returns (r.json().get("text") or "").strip()
transcribe_audio_with_groq(resp) ==
  IF resp.status # "ok" THEN [raised |-> TRUE]
  ELSE [raised |-> FALSE,
        text |-> strip(IF resp.text = None THEN <<>> ELSE resp.text.str)]

\* ------------------------------------------------------------------------
\* State
\* ------------------------------------------------------------------------
VARIABLES
  connected,            \* the sids of the connected clients
  conversation_states,  \* the dict conversation_states: sid -> ConversationState
  lessons_store,        \* the dict lessons_store: lesson id -> stored lesson
  tasks,                \* the voicemessage handlers suspended at an await
  emitted,              \* the airesponse messages the last step emitted
  last,                 \* the branch the last step took, and the transcript it heard
  called,               \* a call of a helper function on its own: name and arguments
  returned              \* what that call returned

vars == <<connected, conversation_states, lessons_store, tasks, emitted, last,
          called, returned>>

\* no helper function is being called on its own
Idle == [fn |-> "none"]

Did(branch, sid, transcript) == [branch |-> branch, sid |-> sid, transcript |-> transcript]

InFlight == BagCardinality(tasks)
Task(sid, pc, state) == [sid |-> sid, pc |-> pc, state |-> state]

Init ==
  /\ connected = {}
  /\ conversation_states = [sid \in Sids |-> Absent]
  /\ lessons_store = [id \in LessonIds |-> Absent]
  /\ tasks = EmptyBag
  /\ emitted = <<>>
  /\ last = Did("init", "none", None)
  /\ called = Idle
  /\ returned = Idle

\* ------------------------------------------------------------------------
\* The stage machine of voicemessage (the if/elif chain on state.stage)
\* ------------------------------------------------------------------------
\* restarted with "english" in the place of prev_lang
restarted_in_english(state) ==
  [ConversationState(state.sid) EXCEPT
     !.language_mode = StrV(english),
     !.data.language = title(english)]

\* restarted without the assignment of data["language"]
restarted_without_tag(state) ==
  LET prev_lang == IF state.language_mode = None THEN english ELSE state.language_mode.str
  IN  [ConversationState(state.sid) EXCEPT !.language_mode = StrV(prev_lang)]

\* the restart branch: conversation_states[sid] = ConversationState(sid) with
\* language_mode and data["language"] carried over
restarted(state) ==
  LET prev_lang == IF state.language_mode = None THEN english ELSE state.language_mode.str
  IN  [ConversationState(state.sid) EXCEPT
         !.language_mode = StrV(prev_lang),
         !.data.language = title(prev_lang)]

\* rejected without the assignment of the stage
rejected_to_start(state) ==
  LET lang == IF state.language_mode = None THEN english ELSE state.language_mode.str
  IN  [ConversationState(state.sid) EXCEPT
         !.language_mode = StrV(lang),
         !.data.language = title(lang)]

\* the "no" branch of CONFIRMATION
rejected(state) ==
  LET lang == IF state.language_mode = None THEN english ELSE state.language_mode.str
  IN  [ConversationState(state.sid) EXCEPT
         !.language_mode = StrV(lang),
         !.data.language = title(lang),
         !.stage = "TOPIC_COLLECTION"]

\* committed with the duration stored under the key of the next stage
committed_duration_as_sessions(state, parsed) ==
  IF state.stage = "LANGUAGE_SELECTION" THEN
    [state EXCEPT !.language_mode = parsed.value,
                  !.data.language = title(parsed.value.str),
                  !.stage = "TOPIC_COLLECTION"]
  ELSE IF state.stage = "TOPIC_COLLECTION" THEN
    [state EXCEPT !.data.topic = parsed.value, !.stage = "SUBJECT_COLLECTION"]
  ELSE IF state.stage = "SUBJECT_COLLECTION" THEN
    [state EXCEPT !.data.subject = parsed.value, !.stage = "CLASS_COLLECTION"]
  ELSE IF state.stage = "CLASS_COLLECTION" THEN
    [state EXCEPT !.data.class_level = parsed.value, !.stage = "SESSION_DURATION"]
  ELSE IF state.stage = "SESSION_DURATION" THEN
    [state EXCEPT !.data.num_sessions = parsed.value.int, !.stage = "NUM_SESSIONS"]
  ELSE [state EXCEPT !.data.num_sessions = parsed.value.int, !.stage = "CONFIRMATION"]

\* the assignments of an accepted value at the stages before CONFIRMATION
committed(state, parsed) ==
  IF state.stage = "LANGUAGE_SELECTION" THEN
    [state EXCEPT !.language_mode = parsed.value,
                  !.data.language = title(parsed.value.str),
                  !.stage = "TOPIC_COLLECTION"]
  ELSE IF state.stage = "TOPIC_COLLECTION" THEN
    [state EXCEPT !.data.topic = parsed.value, !.stage = "SUBJECT_COLLECTION"]
  ELSE IF state.stage = "SUBJECT_COLLECTION" THEN
    [state EXCEPT !.data.subject = parsed.value, !.stage = "CLASS_COLLECTION"]
  ELSE IF state.stage = "CLASS_COLLECTION" THEN
    [state EXCEPT !.data.class_level = parsed.value, !.stage = "SESSION_DURATION"]
  ELSE IF state.stage = "SESSION_DURATION" THEN
    [state EXCEPT !.data.session_duration = parsed.value.int, !.stage = "NUM_SESSIONS"]
  ELSE [state EXCEPT !.data.num_sessions = parsed.value.int, !.stage = "CONFIRMATION"]

\* the clarification text of a stage
clarification(state) ==
  IF state.stage = "LANGUAGE_SELECTION" THEN PROMPTS("LANGUAGE_SELECTION", StrV(english))
  ELSE IF state.stage = "TOPIC_COLLECTION" THEN Localized("CLARIFY_TOPIC", state.language_mode)
  ELSE IF state.stage = "SUBJECT_COLLECTION" THEN Localized("CLARIFY_SUBJECT", state.language_mode)
  ELSE IF state.stage = "CLASS_COLLECTION" THEN Localized("CLARIFY_CLASS", state.language_mode)
  ELSE IF state.stage = "SESSION_DURATION" THEN Localized("CLARIFY_DURATION", state.language_mode)
  ELSE IF state.stage = "NUM_SESSIONS" THEN Localized("CLARIFY_NUM_SESSIONS", state.language_mode)
  ELSE Localized("CLARIFY_CONFIRMATION", state.language_mode)

\* the prompt after an accepted value: PROMPTS[state.stage][state.language_mode]
\* of the state already advanced
next_prompt(state) ==
  IF state.stage = "CONFIRMATION" THEN PROMPTS_CONFIRMATION(state.language_mode, state.data)
  ELSE PROMPTS(state.stage, state.language_mode)

\* advance testing needs_clarification only when the interpreter gave no value
advance_commits_unclear(state, parsed) ==
  LET response_lang == state.data.language
      Out(st, text, lang, raised, generate) ==
        [state |-> st, response_text |-> text, response_lang |-> lang,
         raised |-> raised, generate |-> generate]
  IN
  IF parsed.needs_clarification /\ parsed.value = None THEN
    Out(state, clarification(state),
        IF state.stage = "LANGUAGE_SELECTION" THEN English ELSE response_lang, FALSE, FALSE)
  ELSE IF state.stage = "CONFIRMATION" THEN
    IF parsed.value = BoolV(FALSE) THEN
      Out(rejected(state), PROMPTS("TOPIC_COLLECTION", rejected(state).language_mode),
          response_lang, FALSE, FALSE)
    ELSE Out(state, None, response_lang, FALSE, TRUE)
  ELSE
    LET st == committed(state, parsed) IN
    IF st.language_mode \notin PromptLanguages THEN Out(st, None, response_lang, TRUE, FALSE)
    ELSE Out(st, next_prompt(st),
             IF state.stage = "LANGUAGE_SELECTION" THEN st.data.language ELSE response_lang,
             FALSE, FALSE)

\* One pass of the chain for a parsed utterance that is no restart: the state
\* it leaves in conversation_states[sid], response_text and response_lang,
\* whether a dict lookup raised KeyError, whether the generate branch is taken.
advance(state, parsed) ==
  LET response_lang == state.data.language
      Out(st, text, lang, raised, generate) ==
        [state |-> st, response_text |-> text, response_lang |-> lang,
         raised |-> raised, generate |-> generate]
  IN
  IF parsed.needs_clarification THEN
    Out(state, clarification(state),
        IF state.stage = "LANGUAGE_SELECTION" THEN English ELSE response_lang, FALSE, FALSE)
  ELSE IF state.stage = "CONFIRMATION" THEN
    IF parsed.value = BoolV(FALSE) THEN
      Out(rejected(state), PROMPTS("TOPIC_COLLECTION", rejected(state).language_mode),
          response_lang, FALSE, FALSE)
    ELSE Out(state, None, response_lang, FALSE, TRUE)
  ELSE
    LET st == committed(state, parsed) IN
    IF st.language_mode \notin PromptLanguages THEN Out(st, None, response_lang, TRUE, FALSE)
    ELSE Out(st, next_prompt(st),
             IF state.stage = "LANGUAGE_SELECTION" THEN st.data.language ELSE response_lang,
             FALSE, FALSE)

\* transcribe_audio_with_groq and parse_user_response tabulated over the
\* inputs of the model, so that each is evaluated once
Transcribed == [resp \in SttResponses |-> transcribe_audio_with_groq(resp)]
Transcripts == {Transcribed[resp].text : resp \in {r \in SttResponses : r.status = "ok"}}
Parsed ==
  [transcript \in Transcripts, stage \in Stages |->
     parse_user_response(transcript, stage, None)]

\* ------------------------------------------------------------------------
\* Handlers
\* ------------------------------------------------------------------------
\* connect(sid): a client connects; Socket.IO gives every connection its own
\* sid, so a name is taken again only when nothing of its earlier use is left
connect(sid) ==
  /\ sid \notin connected
  /\ \A t \in BagToSet(tasks) : t.sid # sid
  /\ connected' = connected \cup {sid}
  /\ emitted' = <<>>
  /\ last' = Did("connect", sid, None)
  /\ UNCHANGED <<conversation_states, lessons_store, tasks>>

\* disconnect(sid)
disconnect(sid) ==
  /\ sid \in connected
  /\ connected' = connected \ {sid}
  /\ conversation_states' =
       IF conversation_states[sid] # Absent
         THEN [conversation_states EXCEPT ![sid] = Absent]
         ELSE conversation_states
  /\ emitted' = <<>>
  /\ last' = Did("disconnect", sid, None)
  /\ UNCHANGED <<lessons_store, tasks>>

\* voicemessage(sid, data) up to the transcription: no audio, the first
\* message of a session, audio that b64decode rejects
voicemessage_received(sid, audio) ==
  /\ sid \in connected
  /\ \/ \* if not audio_b64
        /\ audio = "empty"
        /\ emitted' = <<Message(sid, Text("NO_AUDIO", english, NoArgs), English, None)>>
        /\ last' = Did("no_audio", sid, None)
        /\ UNCHANGED <<connected, conversation_states, lessons_store, tasks>>
     \/ \* if sid not in conversation_states
        /\ audio # "empty"
        /\ conversation_states[sid] = Absent
        /\ conversation_states' = [conversation_states EXCEPT ![sid] = ConversationState(sid)]
        /\ emitted' = <<Message(sid, PROMPTS("LANGUAGE_SELECTION", StrV(english)), English, None)>>
        /\ last' = Did("first_message", sid, None)
        /\ UNCHANGED <<connected, lessons_store, tasks>>
     \/ \* base64.b64decode raises
        /\ audio = "invalid"
        /\ conversation_states[sid] # Absent
        /\ emitted' = <<ErrorMessage(sid)>>
        /\ last' = Did("decode_raises", sid, None)
        /\ UNCHANGED <<connected, conversation_states, lessons_store, tasks>>

\* voicemessage(sid, data) with decodable audio and a ConversationState, from
\* the transcription to its return or to its first await followed by more code
voicemessage_transcribed(sid, resp) ==
  /\ sid \in connected
  /\ conversation_states[sid] # Absent
  /\ UNCHANGED <<connected, lessons_store>>
  /\ LET state == conversation_states[sid]
         got == Transcribed[resp]
     IN
     IF got.raised THEN
       /\ emitted' = <<ErrorMessage(sid)>>
       /\ last' = Did("transcribe_raises", sid, None)
       /\ UNCHANGED <<conversation_states, tasks>>
     ELSE IF got.text = <<>> THEN
       \* if not transcript
       /\ emitted' = <<Message(sid, Localized("COULD_NOT_UNDERSTAND", state.language_mode),
                               state.data.language, None)>>
       /\ last' = Did("no_transcript", sid, None)
       /\ UNCHANGED <<conversation_states, tasks>>
     ELSE
       LET parsed == Parsed[got.text, state.stage] IN
       IF parsed.value = StrV(RESTART) THEN
         /\ InFlight < MaxInFlight
         /\ conversation_states' = [conversation_states EXCEPT ![sid] = restarted(state)]
         /\ emitted' = <<Message(sid, Localized("STARTING_OVER", restarted(state).language_mode),
                                 title(restarted(state).language_mode.str), None)>>
         /\ tasks' = tasks (+) SetToBag({Task(sid, "restart_prompt", Absent)})
         /\ last' = Did("restart", sid, StrV(got.text))
       ELSE
         LET out == advance(state, parsed) IN
         /\ conversation_states' = [conversation_states EXCEPT ![sid] = out.state]
         /\ IF out.raised THEN
              /\ emitted' = <<ErrorMessage(sid)>>
              /\ last' = Did("lookup_raises", sid, StrV(got.text))
              /\ UNCHANGED tasks
            ELSE IF out.generate THEN
              /\ InFlight < MaxInFlight
              /\ emitted' = <<Message(sid, Text("GENERATING", english, NoArgs),
                                      out.state.data.language, None)>>
              /\ tasks' = tasks (+) SetToBag({Task(sid, "generate", out.state)})
              /\ last' = Did("confirmed", sid, StrV(got.text))
            ELSE
              \* if response_text
              /\ emitted' = IF out.response_text = None THEN <<>>
                            ELSE <<Message(sid, out.response_text, out.response_lang, None)>>
              /\ last' = Did("answered", sid, StrV(got.text))
              /\ UNCHANGED tasks

\* The speakers of the model name the English language only when asked for a
\* language: the provider's answers a voice message can meet at a stage.
NamesEnglish ==
  [resp \in SttResponses |->
     resp.status = "ok" /\ Contains(english, lower(Transcribed[resp].text))]
Offered(sid) ==
  {resp \in SttResponses :
     /\ (resp.status = "ok" /\ resp.text # None) => resp.text.str \in DialogueTexts
     /\ (NamesEnglish[resp] /\ conversation_states[sid] # Absent)
          => conversation_states[sid].stage = "LANGUAGE_SELECTION"}

voicemessage(sid) ==
  \/ \E audio \in AudioInputs : voicemessage_received(sid, audio)
  \/ \E resp \in Offered(sid) : voicemessage_transcribed(sid, resp)

\* lessons_store[lesson_id] = {"topic": ..., "lesson_data": ..., "subject": ...};
\* lesson_data, built from the generated text, is left out
Lesson(state) == [topic |-> state.data.topic, subject |-> state.data.subject]

\* the success message of the generate branch
SuccessMessage(sid, state, lesson_id) ==
  [ room |-> sid,
    text |-> Text("LESSON_READY",
                  IF state.language_mode = StrV(hindi) THEN hindi ELSE english,
                  [topic |-> state.data.topic, class_level |-> state.data.class_level,
                   subject |-> state.data.subject]),
    speak |-> TRUE,
    language |-> state.data.language,
    downloadid |-> StrV(lesson_id),
    topic |-> state.data.topic ]

\* generate_raises ending the conversation as the success path does
generate_raises_ends_conversation(t) ==
  /\ t.pc = "generate"
  /\ conversation_states' = [conversation_states EXCEPT ![t.sid] = Absent]
  /\ emitted' = <<ErrorMessage(t.sid)>>
  /\ last' = Did("generate_raises", t.sid, None)
  /\ tasks' = tasks (-) SetToBag({t})
  /\ UNCHANGED <<connected, lessons_store>>

\* the generate branch after its "Generating..." emit: a chat call raises
generate_raises(t) ==
  /\ t.pc = "generate"
  /\ emitted' = <<ErrorMessage(t.sid)>>
  /\ last' = Did("generate_raises", t.sid, None)
  /\ tasks' = tasks (-) SetToBag({t})
  /\ UNCHANGED <<connected, conversation_states, lessons_store>>

\* store_raises with the del of the success path run on the way out
store_raises_ends_conversation(t, lesson_id) ==
  /\ t.pc = "generate"
  /\ lessons_store' = [lessons_store EXCEPT ![lesson_id] = Lesson(t.state)]
  /\ conversation_states' = [conversation_states EXCEPT ![t.sid] = Absent]
  /\ emitted' = <<ErrorMessage(t.sid)>>
  /\ last' = Did("store_raises", t.sid, None)
  /\ tasks' = tasks (-) SetToBag({t})
  /\ UNCHANGED connected

\* the lesson is stored under lesson_id, then a crud call raises
store_raises(t, lesson_id) ==
  /\ t.pc = "generate"
  /\ lessons_store' = [lessons_store EXCEPT ![lesson_id] = Lesson(t.state)]
  /\ emitted' = <<ErrorMessage(t.sid)>>
  /\ last' = Did("store_raises", t.sid, None)
  /\ tasks' = tasks (-) SetToBag({t})
  /\ UNCHANGED <<connected, conversation_states>>

\* the lesson is stored under lesson_id and the success message emitted
generate_succeeds(t, lesson_id) ==
  /\ t.pc = "generate"
  /\ lessons_store' = [lessons_store EXCEPT ![lesson_id] = Lesson(t.state)]
  /\ emitted' = <<SuccessMessage(t.sid, t.state, lesson_id)>>
  /\ last' = Did("generate_succeeds", t.sid, None)
  /\ tasks' = (tasks (-) SetToBag({t})) (+) SetToBag({Task(t.sid, "cleanup", Absent)})
  /\ UNCHANGED <<connected, conversation_states>>

\* after the success emit: del conversation_states[sid]; return
cleanup(t) ==
  /\ t.pc = "cleanup"
  /\ IF conversation_states[t.sid] # Absent
       THEN /\ conversation_states' = [conversation_states EXCEPT ![t.sid] = Absent]
            /\ emitted' = <<>>
       ELSE /\ emitted' = <<ErrorMessage(t.sid)>>
            /\ UNCHANGED conversation_states
  /\ last' = Did("cleanup", t.sid, None)
  /\ tasks' = tasks (-) SetToBag({t})
  /\ UNCHANGED <<connected, lessons_store>>

\* the restart branch after its "Starting over..." emit: the second emit
restart_prompt(t) ==
  /\ t.pc = "restart_prompt"
  /\ emitted' = <<Message(t.sid, PROMPTS("LANGUAGE_SELECTION", StrV(english)), English, None)>>
  /\ last' = Did("restart_prompt", t.sid, None)
  /\ tasks' = tasks (-) SetToBag({t})
  /\ UNCHANGED <<connected, conversation_states, lessons_store>>

\* voicemessage resumed after an await: t is the suspended handler
voicemessage_resume(t) ==
  \/ restart_prompt(t)
  \/ generate_raises(t)
  \/ \E lesson_id \in LessonIds : store_raises(t, lesson_id)
  \/ \E lesson_id \in LessonIds : generate_succeeds(t, lesson_id)
  \/ cleanup(t)

Next ==
  \/ \E sid \in Sids : connect(sid) /\ UNCHANGED <<called, returned>>
  \/ \E sid \in Sids : disconnect(sid) /\ UNCHANGED <<called, returned>>
  \/ \E sid \in Sids : voicemessage(sid) /\ UNCHANGED <<called, returned>>
  \/ \E t \in BagToSet(tasks) : voicemessage_resume(t) /\ UNCHANGED <<called, returned>>

Spec == Init /\ [][Next]_vars

TypeOK ==
  /\ connected \subseteq Sids
  /\ InFlight <= MaxInFlight
  /\ \A sid \in Sids : conversation_states[sid] # Absent =>
       conversation_states[sid].stage \in Stages

\* ------------------------------------------------------------------------
\* Properties of the voice dialogue
\* ------------------------------------------------------------------------
\* the step is voicemessage(sid) getting a non-empty transcript from resp
\* (the transcript the step records in last is compared first: it is implied
\* by voicemessage_transcribed and decides most steps at once)
Heard(sid, resp) ==
  /\ ~Transcribed[resp].raised
  /\ Transcribed[resp].text # <<>>
  /\ last'.transcript = StrV(Transcribed[resp].text)
  /\ voicemessage_transcribed(sid, resp)

\* what the interpreter makes of that transcript at the stage of the session
Interpreted(sid, resp) ==
  parse_user_response(Transcribed[resp].text, conversation_states[sid].stage,
                      conversation_states[sid].language_mode)

\* the stage after a stage other than CONFIRMATION
Successor(stage) == StageOrder[IndexIn(stage, StageOrder) + 1]

\* the step handles an utterance that is accepted at a stage up to NUM_SESSIONS
Accepted(sid, resp) ==
  /\ Heard(sid, resp)
  /\ conversation_states[sid].stage # "CONFIRMATION"
  /\ ~Interpreted(sid, resp).needs_clarification
  /\ Interpreted(sid, resp).value # StrV(RESTART)

\* the step handles an utterance with a restart keyword
RestartHeard(sid, resp) ==
  /\ Heard(sid, resp)
  /\ is_restart(strip(lower(Transcribed[resp].text)))

\* the step handles a negative answer at CONFIRMATION
Rejection(sid, resp) ==
  /\ Heard(sid, resp)
  /\ conversation_states[sid].stage = "CONFIRMATION"
  /\ Interpreted(sid, resp) = Result(BoolV(FALSE), FALSE)

\* the step handles an affirmative answer at CONFIRMATION
Affirmation(sid, resp) ==
  /\ Heard(sid, resp)
  /\ conversation_states[sid].stage = "CONFIRMATION"
  /\ Interpreted(sid, resp) = Result(BoolV(TRUE), FALSE)

\* C1: at every stage, handling an utterance the interpreter classifies as
\* needing clarification leaves the stage, the language_mode and every
\* collected field of the session unchanged, and emits one non-empty prompt
\* (no error message) to that session.
C1_ClarificationKeepsState ==
  [][\A sid \in Sids, resp \in SttResponses :
       (Heard(sid, resp) /\ Interpreted(sid, resp).needs_clarification) =>
         /\ conversation_states'[sid] # Absent
         /\ conversation_states'[sid].stage = conversation_states[sid].stage
         /\ conversation_states'[sid].language_mode = conversation_states[sid].language_mode
         /\ conversation_states'[sid].data = conversation_states[sid].data
         /\ Len(emitted') = 1
         /\ emitted'[1].room = sid
         /\ emitted'[1].text # None
         /\ emitted'[1].text.key # "ERROR"
         /\ emitted'[1].downloadid = None
         /\ tasks' = tasks]_vars

\* "40" at CONFIRMATION is neither yes nor no: the session is asked again
C1_Witness ==
  \E sid \in Sids :
    /\ last = Did("answered", sid, StrV(<<"4","0">>))
    /\ conversation_states[sid] # Absent
    /\ conversation_states[sid].stage = "CONFIRMATION"
    /\ Len(emitted) = 1
    /\ emitted[1].text.key = "CLARIFY_CONFIRMATION"

\* the stage of a session that keeps its ConversationState stays, moves to its
\* successor, or moves by a restart or by a rejected confirmation
StageMovesInOrder(sid) ==
  (conversation_states[sid] # Absent /\ conversation_states'[sid] # Absent) =>
    \/ conversation_states'[sid].stage = conversation_states[sid].stage
    \/ /\ conversation_states[sid].stage # "CONFIRMATION"
       /\ conversation_states'[sid].stage = Successor(conversation_states[sid].stage)
    \/ /\ conversation_states'[sid].stage = "LANGUAGE_SELECTION"
       /\ \E resp \in SttResponses : RestartHeard(sid, resp)
    \/ /\ conversation_states'[sid].stage = "TOPIC_COLLECTION"
       /\ \E resp \in SttResponses : Rejection(sid, resp)

\* the collected fields after the value v is written into the field of stage
Written(data, stage, v) ==
  IF stage = "TOPIC_COLLECTION" THEN [data EXCEPT !.topic = v]
  ELSE IF stage = "SUBJECT_COLLECTION" THEN [data EXCEPT !.subject = v]
  ELSE IF stage = "CLASS_COLLECTION" THEN [data EXCEPT !.class_level = v]
  ELSE IF stage = "SESSION_DURATION" THEN [data EXCEPT !.session_duration = v.int]
  ELSE [data EXCEPT !.num_sessions = v.int]

\* C2 (as amended): an accepted utterance at a stage from TOPIC_COLLECTION to
\* NUM_SESSIONS writes the interpreted value into the one collected field of
\* the stage and leaves the other collected fields and language_mode
\* unchanged; at LANGUAGE_SELECTION it writes the interpreted value into
\* language_mode and its capitalised form into the collected field language,
\* the other collected fields unchanged; in both cases the stage becomes the
\* immediate successor.  No step skips a stage, and no step moves the stage
\* backward except a restart or a rejected confirmation.
C2_AcceptedCommitsAndAdvances ==
  [][\A sid \in Sids :
       /\ \A resp \in SttResponses : Accepted(sid, resp) =>
            LET old == conversation_states[sid]
                new == conversation_states'[sid]
                v == Interpreted(sid, resp).value
            IN  /\ new # Absent
                /\ new.stage = Successor(old.stage)
                /\ IF old.stage = "LANGUAGE_SELECTION"
                     THEN /\ new.language_mode = v
                          /\ new.data = [old.data EXCEPT !.language = title(v.str)]
                     ELSE /\ new.language_mode = old.language_mode
                          /\ new.data = Written(old.data, old.stage, v)
       /\ StageMovesInOrder(sid)]_vars

\* C2 (as stated): an accepted utterance at a stage from LANGUAGE_SELECTION to
\* NUM_SESSIONS writes the interpreted value into the one collected field of
\* the stage (language at LANGUAGE_SELECTION), leaves the other collected
\* fields unchanged and moves the stage to its immediate successor; the stage
\* never skips and never moves backward except by a restart or a rejection.
C2_Original ==
  [][\A sid \in Sids :
       /\ \A resp \in SttResponses : Accepted(sid, resp) =>
            LET old == conversation_states[sid]
                new == conversation_states'[sid]
                v == Interpreted(sid, resp).value
            IN  /\ new # Absent
                /\ new.stage = Successor(old.stage)
                /\ new.data = IF old.stage = "LANGUAGE_SELECTION"
                                THEN [old.data EXCEPT !.language = v.str]
                                ELSE Written(old.data, old.stage, v)
       /\ StageMovesInOrder(sid)]_vars

\* a Hindi conversation that has just had its number of sessions accepted
C2_Witness ==
  \E sid \in Sids :
    /\ last = Did("answered", sid, StrV(<<"7">>))
    /\ conversation_states[sid] # Absent
    /\ conversation_states[sid].stage = "CONFIRMATION"
    /\ conversation_states[sid].language_mode = StrV(hindi)
    /\ conversation_states[sid].data.language = Hindi
    /\ conversation_states[sid].data.num_sessions = 7
    /\ conversation_states[sid].data.session_duration = 40

\* C3: a voice message with audio from a session without a ConversationState
\* creates one at LANGUAGE_SELECTION with language_mode unset, duration 40,
\* sessions 4, language English and topic, subject and class unset, and emits
\* the opening language-selection prompt; the audio is neither transcribed
\* nor interpreted (no provider answer is consumed and nothing else changes).
C3_FirstMessageStartsConversation ==
  [][\A sid \in Sids :
       conversation_states[sid] = Absent =>
         /\ \A audio \in AudioInputs \ {"empty"} : voicemessage_received(sid, audio) =>
              /\ conversation_states'[sid] =
                   [ sid |-> sid, stage |-> "LANGUAGE_SELECTION", language_mode |-> None,
                     data |-> [ topic |-> None, subject |-> None, class_level |-> None,
                                session_duration |-> 40, num_sessions |-> 4,
                                language |-> English ] ]
              /\ emitted' = << [ room |-> sid,
                                 text |-> Text("LANGUAGE_SELECTION", english, NoArgs),
                                 speak |-> TRUE, language |-> English,
                                 downloadid |-> None ] >>
              /\ tasks' = tasks
              /\ lessons_store' = lessons_store
         /\ \A resp \in SttResponses : ~voicemessage_transcribed(sid, resp)]_vars

\* the first voice message of a session has just been answered
C3_Witness ==
  \E sid \in Sids :
    /\ last = Did("first_message", sid, None)
    /\ conversation_states[sid] # Absent
    /\ conversation_states[sid].stage = "LANGUAGE_SELECTION"
    /\ conversation_states[sid].language_mode = None
    /\ Len(emitted) = 1
    /\ emitted[1].text = Text("LANGUAGE_SELECTION", english, NoArgs)

\* C4 (as amended): at every stage an utterance with a restart keyword is a
\* restart whatever the stage's own rule would make of it; handling it resets
\* topic, subject, class_level, session_duration and num_sessions to their
\* defaults, keeps language_mode if it was set and sets it to "english" if it
\* was not, sets the collected language to the capitalised language_mode
\* (not to its default), and puts the stage at LANGUAGE_SELECTION.
C4_RestartResets ==
  [][\A sid \in Sids, resp \in SttResponses :
       RestartHeard(sid, resp) =>
         LET old == conversation_states[sid]
             new == conversation_states'[sid]
         IN  /\ new # Absent
             /\ new.stage = "LANGUAGE_SELECTION"
             /\ new.language_mode =
                  IF old.language_mode = None THEN StrV(english) ELSE old.language_mode
             /\ new.data = [ topic |-> None, subject |-> None, class_level |-> None,
                             session_duration |-> 40, num_sessions |-> 4,
                             language |-> title(new.language_mode.str) ]]_vars

\* C4 (as stated): a restart resets all collected fields, language included,
\* to their defaults, keeps language_mode if it was set and puts the stage at
\* LANGUAGE_SELECTION.
C4_Original ==
  [][\A sid \in Sids, resp \in SttResponses :
       RestartHeard(sid, resp) =>
         LET old == conversation_states[sid]
             new == conversation_states'[sid]
         IN  /\ new # Absent
             /\ new.stage = "LANGUAGE_SELECTION"
             /\ old.language_mode # None => new.language_mode = old.language_mode
             /\ new.data = [ topic |-> None, subject |-> None, class_level |-> None,
                             session_duration |-> 40, num_sessions |-> 4,
                             language |-> English ]]_vars

\* a Hindi conversation has just been restarted by the Hindi keyword
C4_Witness ==
  \E sid \in Sids :
    /\ last = Did("restart", sid, StrV(<<"u092B","u093F","u0930"," ","u0938","u0947">>))
    /\ conversation_states[sid] # Absent
    /\ conversation_states[sid].stage = "LANGUAGE_SELECTION"
    /\ conversation_states[sid].language_mode = StrV(hindi)
    /\ conversation_states[sid].data.language = Hindi
    /\ conversation_states[sid].data.topic = None

\* C5: a negative answer at CONFIRMATION resets topic, subject, class_level,
\* session_duration and num_sessions to their defaults, sets the stage to
\* TOPIC_COLLECTION, keeps language_mode, starts no generation, and emits the
\* topic prompt in the variant of language_mode.
C5_RejectionReturnsToTopic ==
  [][\A sid \in Sids, resp \in SttResponses :
       Rejection(sid, resp) =>
         LET old == conversation_states[sid]
             new == conversation_states'[sid]
         IN  /\ new # Absent
             /\ new.stage = "TOPIC_COLLECTION"
             /\ new.language_mode = old.language_mode
             /\ new.data.topic = None
             /\ new.data.subject = None
             /\ new.data.class_level = None
             /\ new.data.session_duration = 40
             /\ new.data.num_sessions = 4
             /\ tasks' = tasks
             /\ lessons_store' = lessons_store
             /\ old.language_mode # None
             /\ Len(emitted') = 1
             /\ emitted'[1].room = sid
             /\ emitted'[1].text = Text("TOPIC_COLLECTION", old.language_mode.str, NoArgs)
             /\ emitted'[1].downloadid = None]_vars

\* "no" has just been answered at CONFIRMATION
C5_Witness ==
  \E sid \in Sids :
    /\ last = Did("answered", sid, StrV(<<"n","o">>))
    /\ conversation_states[sid] # Absent
    /\ conversation_states[sid].stage = "TOPIC_COLLECTION"
    /\ conversation_states[sid].data.topic = None
    /\ Len(emitted) = 1
    /\ emitted[1].text.key = "TOPIC_COLLECTION"

\* the parameters a handler suspended before generate_lesson_from_topic
\* passes to it when it resumes
GenerationRequests == {t.state.data : t \in {u \in BagToSet(tasks) : u.pc = "generate"}}

\* C6: whenever the voice path invokes generation, topic and subject are
\* non-empty strings, class_level is "Class N" with 1 <= N <= 12,
\* session_duration is in 15..90 and num_sessions is in 1..10.
C6_GenerationParamsValid ==
  \A d \in GenerationRequests :
    /\ d.topic # None /\ d.topic.kind = "str" /\ Len(d.topic.str) > 0
    /\ d.subject # None /\ d.subject.kind = "str" /\ Len(d.subject.str) > 0
    /\ d.class_level \in {StrV(<<"C","l","a","s","s"," ">> \o str(n)) : n \in 1..12}
    /\ d.session_duration \in 15..90
    /\ d.num_sessions \in 1..10

\* a confirmed conversation is about to call the generator
C6_Witness ==
  /\ GenerationRequests # {}
  /\ last.branch = "confirmed"

\* C7: the ConversationState of a session is removed by the disconnect of the
\* session and by the end of a generate branch that emitted its success
\* message, and by no other step; a voice message with audio from a session
\* without a ConversationState starts a fresh one at LANGUAGE_SELECTION.
C7_RemovedOnDisconnectOrCompletion ==
  [][\A sid \in Sids :
       /\ (conversation_states[sid] # Absent /\ conversation_states'[sid] = Absent) =>
            \/ disconnect(sid)
            \/ \E t \in BagToSet(tasks) : t.sid = sid /\ cleanup(t)
       /\ disconnect(sid) => conversation_states'[sid] = Absent
       /\ \A t \in BagToSet(tasks) :
            /\ (t.sid = sid /\ cleanup(t)) => conversation_states'[sid] = Absent
            /\ (t.sid = sid /\ t.pc = "generate" /\ conversation_states[sid] # Absent
                  /\ (generate_raises(t) \/ \E id \in LessonIds : store_raises(t, id)))
                 => conversation_states'[sid] = conversation_states[sid]
       /\ \A t \in BagToSet(tasks') :
            (t.sid = sid /\ t.pc = "cleanup" /\ CopiesIn(t, tasks') > CopiesIn(t, tasks)) =>
               /\ Len(emitted') = 1
               /\ emitted'[1].room = sid
               /\ emitted'[1].text.key = "LESSON_READY"
               /\ emitted'[1].downloadid # None
       /\ \A audio \in AudioInputs \ {"empty"} :
            (conversation_states[sid] = Absent /\ voicemessage_received(sid, audio)) =>
               /\ conversation_states'[sid] # Absent
               /\ conversation_states'[sid].stage = "LANGUAGE_SELECTION"
               /\ conversation_states'[sid].language_mode = None
               /\ conversation_states'[sid].data.topic = None]_vars

\* a connected session whose conversation has just ended with its lesson stored
C7_Witness ==
  \E sid \in Sids :
    /\ last = Did("cleanup", sid, None)
    /\ sid \in connected
    /\ conversation_states[sid] = Absent
    /\ emitted = <<>>
    /\ \E id \in LessonIds : lessons_store[id] # Absent

\* C8: when the generation call fails after an affirmative confirmation, one
\* error message without downloadid goes to the session and the failure
\* leaves conversation_states as it is; the handler was at CONFIRMATION, and
\* unless another event of the session was handled while it was suspended
\* the ConversationState is the one it confirmed: it exists, its stage is
\* CONFIRMATION and its collected fields are those given to the generator.
\* An affirmative utterance at CONFIRMATION changes no field and passes the
\* collected fields as they stand to the generator, so the retry uses the
\* same parameters.
C8_GenerationFailureKeepsState ==
  [][/\ \A t \in BagToSet(tasks) : generate_raises(t) =>
          /\ conversation_states' = conversation_states
          /\ lessons_store' = lessons_store
          /\ Len(emitted') = 1
          /\ emitted'[1].room = t.sid
          /\ emitted'[1].text.key = "ERROR"
          /\ emitted'[1].downloadid = None
          /\ t.state # Absent
          /\ t.state.stage = "CONFIRMATION"
          /\ conversation_states[t.sid] = t.state =>
               /\ conversation_states'[t.sid] # Absent
               /\ conversation_states'[t.sid].stage = "CONFIRMATION"
               /\ conversation_states'[t.sid].data = t.state.data
               /\ advance(conversation_states'[t.sid], Result(BoolV(TRUE), FALSE)).generate
               /\ advance(conversation_states'[t.sid], Result(BoolV(TRUE), FALSE)).state.data
                    = t.state.data
     /\ \A sid \in Sids, resp \in SttResponses : Affirmation(sid, resp) =>
          /\ conversation_states' = conversation_states
          /\ tasks' = tasks (+) SetToBag({Task(sid, "generate", conversation_states[sid])})]_vars

\* the generator has just failed and the session is still at CONFIRMATION
\* with the parameters it confirmed
C8_Witness ==
  \E sid \in Sids :
    /\ last = Did("generate_raises", sid, None)
    /\ conversation_states[sid] # Absent
    /\ conversation_states[sid].stage = "CONFIRMATION"
    /\ conversation_states[sid].data.topic # None
    /\ Len(emitted) = 1
    /\ emitted[1].text.key = "ERROR"
    /\ \A id \in LessonIds : lessons_store[id] = Absent

\* C9: when the transcription of a voice message fails or yields no text, the
\* session receives the "could not understand" message in the variant of its
\* language_mode, and its ConversationState is unchanged.
C9_TranscriptionFailureIsLocalized ==
  [][\A sid \in Sids, resp \in SttResponses :
       (/\ Transcribed[resp].raised \/ Transcribed[resp].text = <<>>
        /\ voicemessage_transcribed(sid, resp)) =>
         /\ conversation_states' = conversation_states
         /\ Len(emitted') = 1
         /\ emitted'[1].room = sid
         /\ emitted'[1].text.key = "COULD_NOT_UNDERSTAND"
         /\ conversation_states[sid].language_mode # None =>
              emitted'[1].text.variant = conversation_states[sid].language_mode.str]_vars

\* the messages of the stages: prompts, clarifications, restart notice,
\* could-not-understand
StageMessageKeys ==
  Stages \cup {"CLARIFY_TOPIC", "CLARIFY_SUBJECT", "CLARIFY_CLASS", "CLARIFY_DURATION",
               "CLARIFY_NUM_SESSIONS", "CLARIFY_CONFIRMATION", "STARTING_OVER",
               "COULD_NOT_UNDERSTAND"}

\* C10: every stage message emitted to a session is in the variant of the
\* session's language_mode, and in English while language_mode is unset.
C10_MessagesFollowLanguageMode ==
  \A i \in 1..Len(emitted) :
    (/\ emitted[i].text.key \in StageMessageKeys
     /\ conversation_states[emitted[i].room] # Absent) =>
       emitted[i].text.variant =
         IF conversation_states[emitted[i].room].language_mode = None
           THEN english
           ELSE conversation_states[emitted[i].room].language_mode.str

\* the handlers of sid that are suspended at an await
Suspended(sid) == {t \in BagToSet(tasks) : t.sid = sid}

\* the suspended handlers of sid that emit a response when they resume: the
\* language prompt of a restart, the success or error message of a generation
OwesResponse(sid) == {t \in Suspended(sid) : t.pc \in {"restart_prompt", "generate"}}

\* C11: the responses of a session are emitted in the order in which their
\* voice messages were received: a voice message of the session is answered
\* only when no handler of an earlier message of the session has a response
\* still to emit.
C11_ResponsesInOrder ==
  [][\A sid \in Sids :
       (voicemessage(sid) /\ emitted' # <<>>) => OwesResponse(sid) = {}]_vars

\* C12: an utterance of a session goes through the stage machine only when
\* no handler of an earlier utterance of the session is still in flight, so
\* that a session never has two generations pending.
C12_StageMachineNotReentered ==
  [][\A sid \in Sids :
       /\ \A resp \in SttResponses : Heard(sid, resp) => Suspended(sid) = {}
       /\ \A t \in Suspended(sid) : t.pc = "generate" => tasks[t] = 1
       /\ Cardinality({t \in Suspended(sid) : t.pc = "generate"}) <= 1]_vars

\* C14: when a session has disconnected while a handler of it was in flight,
\* its ConversationState is gone and is not created again by that handler,
\* and the handler's results are discarded: it stores no lesson and emits no
\* response with a downloadid.
C14_DisconnectDiscardsResults ==
  [][\A sid \in Sids :
       /\ disconnect(sid) => conversation_states'[sid] = Absent
       /\ \A t \in Suspended(sid) :
            (sid \notin connected /\ voicemessage_resume(t)) =>
               /\ conversation_states[sid] = Absent
               /\ conversation_states'[sid] = Absent
               /\ lessons_store' = lessons_store
               /\ \A i \in 1..Len(emitted') : emitted'[i].downloadid = None]_vars


(***************************************************************************)
(* Helper functions of the lesson parser, called on their own.  The        *)
(* dialogue is at rest; `called` holds the arguments, `returned` the       *)
(* result.                                                                 *)
(***************************************************************************)

\* the dialogue variables of a server nobody has connected to
AtRest ==
  /\ connected = {}
  /\ conversation_states = [sid \in Sids |-> Absent]
  /\ lessons_store = [id \in LessonIds |-> Absent]
  /\ tasks = EmptyBag
  /\ emitted = <<>>
  /\ last = Did("init", "none", None)

Dialogue == <<connected, conversation_states, lessons_store, tasks, emitted, last>>

\* the sequences over a set of at most n elements
SeqsUpTo(S, n) == UNION {[1..m -> S] : m \in 0..n}

\* ---- _split_into_n ----

MaxItems == 4
MaxN == 4

\* the "-" the function puts in a bucket that got no item
Dash == <<"-">>

\* the example list of five different items
FiveItems == << <<"a">>, <<"b">>, <<"c">>, <<"d">>, <<"e">> >>

Items == {<<"a">>, <<"b">>, Dash}
ItemLists == SeqsUpTo(Items, MaxItems) \cup {FiveItems}

\* the loop over enumerate(items): buckets[idx % n].append(item), idx from 0
RECURSIVE append_round_robin(_, _, _, _)
append_round_robin(buckets, items, idx, n) ==
  IF idx >= Len(items) THEN buckets
  ELSE append_round_robin(
         [buckets EXCEPT ![(idx % n) + 1] = Append(@, items[idx + 1])],
         items, idx + 1, n)

\* the function without its last line: a bucket that got no item stays []
split_into_n_keeps_empty(items, n) ==
  IF items = <<>> THEN [k \in 1..n |-> <<Dash>>]
  ELSE append_round_robin([k \in 1..n |-> <<>>], items, 0, n)

split_into_n(items, n) ==
  IF items = <<>> THEN [k \in 1..n |-> <<Dash>>]
  ELSE LET buckets == append_round_robin([k \in 1..n |-> <<>>], items, 0, n)
       IN  [k \in 1..n |-> IF buckets[k] # <<>> THEN buckets[k] ELSE <<Dash>>]

InitSplit ==
  /\ AtRest
  /\ called \in {[fn |-> "split_into_n", items |-> items, n |-> n] :
                   items \in ItemLists, n \in 1..MaxN}
  /\ returned = Idle

call_split_into_n ==
  /\ called.fn = "split_into_n"
  /\ returned = Idle
  /\ returned' = [fn |-> "split_into_n", value |-> split_into_n(called.items, called.n)]
  /\ UNCHANGED <<Dialogue, called>>

SpecSplit == InitSplit /\ [][call_split_into_n]_vars

\* the items at the 0-based indices i with i mod n = k, in input order
AtIndicesMod(items, n, k) ==
  LET count == Cardinality({i \in 0..(Len(items) - 1) : i % n = k})
  IN  [j \in 1..count |-> items[k + (j - 1) * n + 1]]

\* C19: _split_into_n returns exactly n buckets; bucket k holds, in input
\* order, exactly the items whose 0-based index i has i mod n = k, a bucket
\* that got no item is ["-"], and for an empty list all n buckets are ["-"];
\* [a,b,c,d,e] in 4 gives [[a,e],[b],[c],[d]] and [] in 3 gives three ["-"].
C19_SplitIsRoundRobin ==
  returned.fn = "split_into_n" =>
    LET items == called.items
        n == called.n
        out == returned.value
    IN  /\ Len(out) = n
        /\ \A k \in 0..(n - 1) :
             out[k + 1] = IF AtIndicesMod(items, n, k) = <<>> THEN <<Dash>>
                          ELSE AtIndicesMod(items, n, k)
        /\ items = <<>> => \A k \in 1..n : out[k] = <<Dash>>
        /\ (items = FiveItems /\ n = 4) =>
             out = << << <<"a">>, <<"e">> >>, << <<"b">> >>, << <<"c">> >>, << <<"d">> >> >>
        /\ (items = <<>> /\ n = 3) => out = << <<Dash>>, <<Dash>>, <<Dash>> >>

\* five items were split in four: the first bucket got the first and the fifth
C19_Witness ==
  /\ returned.fn = "split_into_n"
  /\ called.items = FiveItems
  /\ called.n = 4
  /\ returned.value[1] = << <<"a">>, <<"e">> >>


\* ---- _lines_to_list ----

MaxBlockLen == 4

\* the bullet glyph U+2022
Bullet == "u2022"

BlockChars == {Bullet, "-", " ", "\n", "1", ".", ")", "a"}
Blocks == SeqsUpTo(BlockChars, MaxBlockLen)

\* str.splitlines(): the pieces between line breaks; a line break at the end
\* of the text opens no further line
RECURSIVE splitlines(_)
splitlines(s) ==
  IF s = <<>> THEN <<>>
  ELSE LET breaks == {i \in 1..Len(s) : s[i] = "\n"}
       IN  IF breaks = {} THEN <<s>>
           ELSE LET b == CHOOSE i \in breaks : \A j \in breaks : i <= j
                IN  <<SubSeq(s, 1, b - 1)>> \o splitlines(SubSeq(s, b + 1, Len(s)))

\* str.lstrip(chars): the leading characters that are in chars removed
lstrip(s, chars) ==
  LET keep == {i \in 1..Len(s) : s[i] \notin chars}
  IN  IF keep = {} THEN <<>>
      ELSE SubSeq(s, CHOOSE i \in keep : \A j \in keep : i <= j, Len(s))

\* the body of the loop for a line whose strip() is not empty
line_to_item(raw) ==
  LET s == lstrip(strip(raw), {Bullet, "-", " ", "\t"})
  IN  IF Len(s) > 2 /\ IsDigit(s[1]) /\ s[2] \in {".", ")"}
        THEN strip(SubSeq(s, 3, Len(s)))
        ELSE s

lines_to_list(block) ==
  IF block = <<>> THEN <<>>
  ELSE LET lines == SelectSeq(splitlines(block), LAMBDA raw : strip(raw) # <<>>)
       IN  [i \in 1..Len(lines) |-> line_to_item(lines[i])]

InitLines ==
  /\ AtRest
  /\ called \in {[fn |-> "lines_to_list", block |-> block] : block \in Blocks}
  /\ returned = Idle

call_lines_to_list ==
  /\ called.fn = "lines_to_list"
  /\ returned = Idle
  /\ returned' = [fn |-> "lines_to_list", value |-> lines_to_list(called.block)]
  /\ UNCHANGED <<Dialogue, called>>

SpecLines == InitLines /\ [][call_lines_to_list]_vars

\* the trimmed lines of a block that are not empty, in order
TrimmedLines(block) ==
  LET lines == splitlines(block)
      trimmed == [i \in 1..Len(lines) |-> strip(lines[i])]
  IN  SelectSeq(trimmed, LAMBDA l : l # <<>>)

\* a line without its leading bullet glyphs, hyphens and the blanks after them
Unbulleted(line) == lstrip(line, {Bullet, "-", " ", "\t"})

\* the line begins with one digit followed by ". " or ") "
HasEnumerator(line) ==
  /\ Len(line) >= 3
  /\ IsDigit(line[1])
  /\ line[2] \in {".", ")"}
  /\ line[3] = " "

\* C20: _lines_to_list returns, in order, one item per non-empty trimmed line:
\* the line without its leading bullet or hyphen, and without its leading
\* enumerator only when that is one digit followed by ". " or ") "; nothing
\* else is removed and no item is empty.
C20_ItemsAreTheLines ==
  returned.fn = "lines_to_list" =>
    LET lines == TrimmedLines(called.block)
        out == returned.value
    IN  /\ Len(out) = Len(lines)
        /\ \A i \in 1..Len(out) :
             /\ out[i] # <<>>
             /\ out[i] = IF HasEnumerator(Unbulleted(lines[i]))
                          THEN strip(SubSeq(Unbulleted(lines[i]), 3, Len(Unbulleted(lines[i]))))
                          ELSE Unbulleted(lines[i])


(***************************************************************************)
(* textmessage: the lesson asked for in one request, without a dialogue    *)
(***************************************************************************)

\* x or default: None, "", 0 and False count as missing
or_default(x, default) ==
  IF x \in {None, StrV(<<>>), IntV(0), BoolV(FALSE)} THEN default ELSE x

max(a, b) == IF a >= b THEN a ELSE b
min(a, b) == IF a <= b THEN a ELSE b

LessonTopic == <<"L","e","s","s","o","n"," ","T","o","p","i","c">>
Class2 == <<"C","l","a","s","s"," ","2">>

\* the fields of data the handler reads, all of them missing
NoData ==
  [ topic |-> None, subject |-> None, classlevel |-> None, language |-> None,
    content |-> None, sessionduration |-> None, numsessions |-> None ]

\* the values a request may carry for its topic, content, duration and count
TopicValues == {None, StrV(<<>>), StrV(<<" ">>), StrV(<<"a","b">>)}
ContentValues == {None, StrV(<<>>), StrV(<<"x">>)}
DurationValues == {None} \cup {IntV(d) : d \in {-5, 0, 14, 15, 60, 90, 91}}
NumSessionsValues == {None} \cup {IntV(n) : n \in {-1, 0, 1, 5, 10, 11}}

\* the requests: every topic with every content, and a request with a topic
\* with every duration and with every number of sessions
TextRequests ==
  {[NoData EXCEPT !.topic = topic, !.content = content] :
     topic \in TopicValues, content \in ContentValues}
  \cup {[NoData EXCEPT !.topic = StrV(<<"a","b">>), !.sessionduration = d] :
          d \in DurationValues}
  \cup {[NoData EXCEPT !.topic = StrV(<<"a","b">>), !.numsessions = n] :
          n \in NumSessionsValues}

\* the local variables of textmessage after its first lines
Request(data) ==
  [ data |-> data,
    topic |-> strip(or_default(data.topic, StrV(LessonTopic)).str),
    subject |-> strip(or_default(data.subject, StrV(Mathematics)).str),
    class_level |-> strip(or_default(data.classlevel, StrV(Class2)).str),
    language |-> strip(or_default(data.language, StrV(English)).str),
    raw_content |-> strip(or_default(data.content, StrV(<<>>)).str),
    session_duration |-> max(15, min(90, or_default(data.sessionduration, IntV(40)).int)),
    num_sessions |-> max(1, min(10, or_default(data.numsessions, IntV(4)).int)) ]

\* the payload of a textmessage emit: speak is False
TextMessage(sid, key, args, language, downloadid) ==
  [ room |-> sid, text |-> Text(key, english, args), speak |-> FALSE,
    language |-> language, downloadid |-> downloadid ]

\* textmessage(sid, data) up to its return or to the await before the generation
textmessage(sid, data) ==
  LET r == Request(data) IN
  /\ sid \in connected
  /\ UNCHANGED <<connected, conversation_states, lessons_store>>
  /\ IF r.topic = <<>> /\ r.raw_content = <<>> THEN
       /\ emitted' = <<TextMessage(sid, "TEXT_MISSING", NoArgs, r.language, None)>>
       /\ last' = Did("text_missing", sid, None)
       /\ UNCHANGED tasks
     ELSE
       /\ InFlight < MaxInFlight
       /\ emitted' = <<TextMessage(sid, "TEXT_GENERATING",
                                   [num_sessions |-> r.num_sessions,
                                    session_duration |-> r.session_duration,
                                    total_time |-> r.session_duration * r.num_sessions],
                                   r.language, None)>>
       /\ tasks' = tasks (+) SetToBag({Task(sid, "text_generate", r)})
       /\ last' = Did("text_accepted", sid, None)

\* lessons_store[lesson_id] = {"topic": topic, "lesson_data": ..., "subject": subject}
TextLesson(r) == [topic |-> StrV(r.topic), subject |-> StrV(r.subject)]

\* the except branch of textmessage: f"Generation failed: {str(e)}", e left out
TextFailedMessage(t) == TextMessage(t.sid, "TEXT_FAILED", NoArgs, t.state.language, None)

\* the success message of textmessage
TextSuccessMessage(t, lesson_id) ==
  [ room |-> t.sid,
    text |-> Text("TEXT_LESSON_READY", english,
                  [topic |-> t.state.topic, class_level |-> t.state.class_level,
                   subject |-> t.state.subject, language |-> t.state.language,
                   num_sessions |-> t.state.num_sessions,
                   session_duration |-> t.state.session_duration]),
    speak |-> FALSE,
    language |-> t.state.language,
    downloadid |-> StrV(lesson_id),
    topic |-> StrV(t.state.topic) ]

\* after the "Generating..." emit: the generation or the building raises
text_generate_raises(t) ==
  /\ t.pc = "text_generate"
  /\ emitted' = <<TextFailedMessage(t)>>
  /\ last' = Did("text_generate_raises", t.sid, None)
  /\ tasks' = tasks (-) SetToBag({t})
  /\ UNCHANGED <<connected, conversation_states, lessons_store>>

\* the lesson is stored under lesson_id, then a crud call raises
text_store_raises(t, lesson_id) ==
  /\ t.pc = "text_generate"
  /\ lessons_store' = [lessons_store EXCEPT ![lesson_id] = TextLesson(t.state)]
  /\ emitted' = <<TextFailedMessage(t)>>
  /\ last' = Did("text_store_raises", t.sid, None)
  /\ tasks' = tasks (-) SetToBag({t})
  /\ UNCHANGED <<connected, conversation_states>>

\* the success message emitted for a lesson that was not stored
text_generate_succeeds_unstored(t, lesson_id) ==
  /\ t.pc = "text_generate"
  /\ emitted' = <<TextSuccessMessage(t, lesson_id)>>
  /\ last' = Did("text_generate_succeeds", t.sid, None)
  /\ tasks' = tasks (-) SetToBag({t})
  /\ UNCHANGED <<connected, conversation_states, lessons_store>>

\* the lesson is stored under lesson_id and the success message emitted
text_generate_succeeds(t, lesson_id) ==
  /\ t.pc = "text_generate"
  /\ lessons_store' = [lessons_store EXCEPT ![lesson_id] = TextLesson(t.state)]
  /\ emitted' = <<TextSuccessMessage(t, lesson_id)>>
  /\ last' = Did("text_generate_succeeds", t.sid, None)
  /\ tasks' = tasks (-) SetToBag({t})
  /\ UNCHANGED <<connected, conversation_states>>

\* textmessage resumed after its await: t is the suspended handler
textmessage_resume(t) ==
  \/ text_generate_raises(t)
  \/ \E lesson_id \in LessonIds : text_store_raises(t, lesson_id)
  \/ \E lesson_id \in LessonIds : text_generate_succeeds(t, lesson_id)

TextNext ==
  \/ \E sid \in Sids : connect(sid) /\ UNCHANGED <<called, returned>>
  \/ \E sid \in Sids : disconnect(sid) /\ UNCHANGED <<called, returned>>
  \/ \E sid \in Sids, data \in TextRequests :
       textmessage(sid, data) /\ UNCHANGED <<called, returned>>
  \/ \E t \in BagToSet(tasks) : textmessage_resume(t) /\ UNCHANGED <<called, returned>>

SpecText == Init /\ [][TextNext]_vars

\* the text handlers of the run that wait to generate
TextGenerations == {t \in BagToSet(tasks) : t.pc = "text_generate"}

\* C15: for every integer duration d and number of sessions s a text request
\* supplies, the generation uses max(15, min(90, d)) and max(1, min(10, s)).
C15_SuppliedValuesAreClamped ==
  \A t \in TextGenerations :
    /\ t.state.data.sessionduration.kind = "int" =>
         t.state.session_duration = max(15, min(90, t.state.data.sessionduration.int))
    /\ t.state.data.numsessions.kind = "int" =>
         t.state.num_sessions = max(1, min(10, t.state.data.numsessions.int))

\* a field of a request that is absent or empty
Missing(v) == v \in {None, StrV(<<>>)}

\* C16: a text request whose topic and content are both missing is answered
\* with exactly one error response and nothing else: no generation is
\* started, no lesson is stored and no download id is emitted.
C16_MissingTopicAndContentIsAnError ==
  [][\A sid \in Sids : \A data \in TextRequests :
       (Missing(data.topic) /\ Missing(data.content) /\ textmessage(sid, data)) =>
          /\ Len(emitted') = 1
          /\ emitted'[1].text.key = "TEXT_MISSING"
          /\ emitted'[1].downloadid = None
          /\ tasks' = tasks
          /\ lessons_store' = lessons_store]_vars


(***************************************************************************)
(* Both paths of one server: voice messages and text requests              *)
(***************************************************************************)

\* the text requests of the server that also holds voice dialogues: one with
\* nothing filled in, which is accepted, and one with a blank topic, which is not
FewTextRequests == {NoData, [NoData EXCEPT !.topic = StrV(<<" ">>)]}

\* the provider's answers on that server: one for every branch of voicemessage
\* (the call raising, no text, a language, a restart, numbers, yes and no)
FewSttResponses ==
  {[status |-> "timeout"], [status |-> "ok", text |-> None]}
    \cup {[status |-> "ok", text |-> StrV(t)] :
            t \in { <<"H","i","n","d","i">>, <<"R","e","s","t","a","r","t">>,
                    <<"7">>, <<"4","0">>, <<"o","k">>, <<"n","o">> }}

voicemessage_few(sid) ==
  \/ \E audio \in AudioInputs : voicemessage_received(sid, audio)
  \/ \E resp \in Offered(sid) \cap FewSttResponses : voicemessage_transcribed(sid, resp)

BothNext ==
  \/ \E sid \in Sids : connect(sid) /\ UNCHANGED <<called, returned>>
  \/ \E sid \in Sids : disconnect(sid) /\ UNCHANGED <<called, returned>>
  \/ \E sid \in Sids : voicemessage_few(sid) /\ UNCHANGED <<called, returned>>
  \/ \E t \in BagToSet(tasks) : voicemessage_resume(t) /\ UNCHANGED <<called, returned>>
  \/ \E sid \in Sids, data \in FewTextRequests :
       textmessage(sid, data) /\ UNCHANGED <<called, returned>>
  \/ \E t \in BagToSet(tasks) : textmessage_resume(t) /\ UNCHANGED <<called, returned>>

SpecBoth == Init /\ [][BothNext]_vars

\* the texts of the two success responses
SuccessKeys == {"LESSON_READY", "TEXT_LESSON_READY"}

\* C17: a response carries a download id only when it is the success response
\* of a completed generation, and a lesson is then stored under that id; every
\* prompt, clarification, notice and error carries no download id.
C17_DownloadIdOnlyWithStoredLesson ==
  \A i \in 1..Len(emitted) :
    /\ emitted[i].downloadid # None =>
         /\ emitted[i].text.key \in SuccessKeys
         /\ emitted[i].downloadid.kind = "str"
         /\ emitted[i].downloadid.str \in LessonIds
         /\ lessons_store[emitted[i].downloadid.str] # Absent
    /\ emitted[i].text.key \notin SuccessKeys => emitted[i].downloadid = None

\* a text request was answered with its success response while the lesson of
\* a voice dialogue was in the store under the other id
C17_Witness ==
  /\ last.branch = "text_generate_succeeds"
  /\ Len(emitted) = 1
  /\ emitted[1].downloadid # None
  /\ lessons_store[emitted[1].downloadid.str] = TextLesson(Request(NoData))
  /\ \E id \in LessonIds : lessons_store[id] \notin {Absent, TextLesson(Request(NoData))}


(***************************************************************************)
(* The end-to-end scenario: a speaker who follows the script               *)
(***************************************************************************)

\* what the speaker says at a stage
ScriptFor(stage) ==
  IF stage = "LANGUAGE_SELECTION" THEN {hindi}
  ELSE IF stage = "TOPIC_COLLECTION" THEN ScenarioTopics
  ELSE IF stage = "SUBJECT_COLLECTION" THEN {<<"s","c","i","e","n","c","e">>}
  ELSE IF stage = "CLASS_COLLECTION" THEN {<<"7">>}
  ELSE IF stage = "SESSION_DURATION" THEN {<<"4","0">>}
  ELSE IF stage = "NUM_SESSIONS" THEN {<<"4">>}
  ELSE {haan}

\* the provider's answers to that speaker: a failure, or the line of the script
Scripted(sid) ==
  {resp \in SttResponses :
     \/ resp.status # "ok"
     \/ /\ resp.text # None
        /\ conversation_states[sid] # Absent
        /\ resp.text.str \in ScriptFor(conversation_states[sid].stage)}

voicemessage_scripted(sid) ==
  \/ \E audio \in AudioInputs : voicemessage_received(sid, audio)
  \/ \E resp \in Scripted(sid) : voicemessage_transcribed(sid, resp)

ScenarioNext ==
  \/ \E sid \in Sids : connect(sid) /\ UNCHANGED <<called, returned>>
  \/ \E sid \in Sids : disconnect(sid) /\ UNCHANGED <<called, returned>>
  \/ \E sid \in Sids : voicemessage_scripted(sid) /\ UNCHANGED <<called, returned>>
  \/ \E t \in BagToSet(tasks) : voicemessage_resume(t) /\ UNCHANGED <<called, returned>>

SpecScenario == Init /\ [][ScenarioNext]_vars

\* the collected values of the scenario for a topic
Collected(topic) ==
  [ topic |-> StrV(topic), subject |-> StrV(Science),
    class_level |-> StrV(ClassPrefix \o <<"7">>),
    session_duration |-> 40, num_sessions |-> 4, language |-> Hindi ]

\* C18: from a fresh state at LANGUAGE_SELECTION the utterances "hindi", a
\* Hindi topic of at least 3 characters, "science", "7", "40", "4" and the
\* Hindi affirmative are each accepted without clarification and advance the
\* stage once each; the last one starts the generation with that topic
\* verbatim, "Science", "Class 7", 40 minutes, 4 sessions and "Hindi".
C18_ScenarioReachesGeneration ==
  [][\A sid \in Sids : \A resp \in SttResponses :
       ( /\ Heard(sid, resp)
         /\ Transcribed[resp].text \in ScriptFor(conversation_states[sid].stage) ) =>
       LET state == conversation_states[sid]
           text == Transcribed[resp].text
       IN
       /\ ~Interpreted(sid, resp).needs_clarification
       /\ Interpreted(sid, resp).value # StrV(RESTART)
       /\ IF state.stage = "CONFIRMATION" THEN
            /\ \E topic \in ScenarioTopics : state.data = Collected(topic)
            /\ state.language_mode = StrV(hindi)
            /\ tasks' = tasks (+) SetToBag({Task(sid, "generate", state)})
            /\ emitted'[1].text.key = "GENERATING"
          ELSE
            /\ conversation_states'[sid] # Absent
            /\ conversation_states'[sid].stage = Successor(state.stage)
            /\ tasks' = tasks
            /\ emitted'[1].text.key = Successor(state.stage)
            /\ conversation_states'[sid].data =
                 IF state.stage = "LANGUAGE_SELECTION"
                   THEN [ConversationState(sid).data EXCEPT !.language = Hindi]
                 ELSE IF state.stage = "TOPIC_COLLECTION"
                   THEN [state.data EXCEPT !.topic = StrV(text)]
                 ELSE IF state.stage = "SUBJECT_COLLECTION"
                   THEN [state.data EXCEPT !.subject = StrV(Science)]
                 ELSE IF state.stage = "CLASS_COLLECTION"
                   THEN [state.data EXCEPT !.class_level = StrV(ClassPrefix \o <<"7">>)]
                 ELSE IF state.stage = "SESSION_DURATION"
                   THEN [state.data EXCEPT !.session_duration = 40]
                 ELSE [state.data EXCEPT !.num_sessions = 4]]_vars

\* the affirmative was heard and the generation of the lesson on the
\* three-character topic waits to run
C18_Witness ==
  \E sid \in Sids :
    /\ last = Did("confirmed", sid, StrV(haan))
    /\ conversation_states[sid] # Absent
    /\ conversation_states[sid].data = Collected(nadi)
    /\ Task(sid, "generate", conversation_states[sid]) \in BagToSet(tasks)


(***************************************************************************)
(* The event loop: two sessions served by the one thread that runs every   *)
(* handler.  transcribe_audio_with_groq (requests.post) and the generation *)
(* (groq_chat) are plain calls inside the coroutine: the thread is inside  *)
(* the call until it returns, and no other handler runs meanwhile.         *)
(***************************************************************************)

LoopSids == {"s1", "s2"}

InitLoop ==
  /\ connected = {}
  /\ conversation_states = [sid \in LoopSids |-> Absent]
  /\ lessons_store = [id \in LessonIds |-> Absent]
  /\ tasks = EmptyBag
  /\ emitted = <<>>
  /\ last = Did("init", "none", None)
  /\ called = Idle
  /\ returned = Idle

\* the thread is inside a call of the transcription or of the generation
InCall == last.branch \in {"transcribing", "generating"}

\* the thread is free to run the next handler or to resume a suspended one
LoopFree == ~InCall

\* voicemessage(sid, data) with decodable audio and a ConversationState
\* enters transcribe_audio_with_groq
transcribe_called(sid) ==
  /\ LoopFree
  /\ sid \in connected
  /\ conversation_states[sid] # Absent
  /\ last' = Did("transcribing", sid, None)
  /\ emitted' = <<>>
  /\ UNCHANGED <<connected, conversation_states, lessons_store, tasks>>

\* the call returns or raises, and the handler runs on to its next await
transcribe_returned(sid, resp) ==
  /\ last = Did("transcribing", sid, None)
  /\ voicemessage_transcribed(sid, resp)

\* the handler resumed after its "Generating..." emit enters the generation
generate_called(t) ==
  /\ LoopFree
  /\ t.pc = "generate"
  /\ last' = Did("generating", t.sid, None)
  /\ emitted' = <<>>
  /\ UNCHANGED <<connected, conversation_states, lessons_store, tasks>>

\* the generation returns or raises, and the handler runs on to its next await
generate_returned(t) ==
  /\ last = Did("generating", t.sid, None)
  /\ \/ generate_raises(t)
     \/ \E lesson_id \in LessonIds : store_raises(t, lesson_id)
     \/ \E lesson_id \in LessonIds : generate_succeeds(t, lesson_id)

\* a message of sid is taken up by the thread
message_taken(sid) ==
  \/ \E audio \in AudioInputs : LoopFree /\ voicemessage_received(sid, audio)
  \/ transcribe_called(sid)

LoopNext ==
  \/ \E sid \in LoopSids : LoopFree /\ connect(sid) /\ UNCHANGED <<called, returned>>
  \/ \E sid \in LoopSids : LoopFree /\ disconnect(sid) /\ UNCHANGED <<called, returned>>
  \/ \E sid \in LoopSids : message_taken(sid) /\ UNCHANGED <<called, returned>>
  \/ \E sid \in LoopSids : \E resp \in Scripted(sid) :
       transcribe_returned(sid, resp) /\ UNCHANGED <<called, returned>>
  \/ \E t \in BagToSet(tasks) : generate_called(t) /\ UNCHANGED <<called, returned>>
  \/ \E t \in BagToSet(tasks) : generate_returned(t) /\ UNCHANGED <<called, returned>>
  \/ \E t \in BagToSet(tasks) :
       LoopFree /\ (restart_prompt(t) \/ cleanup(t)) /\ UNCHANGED <<called, returned>>

SpecLoop == InitLoop /\ [][LoopNext]_vars

\* C13: while the handler of one session waits for the transcription or the
\* generation call to complete, a message of another connected session can
\* be taken up and handled: the calls do not block the other sessions.
C13_CallsDoNotBlockOtherSessions ==
  \A sid \in LoopSids :
    (InCall /\ sid \in connected /\ sid # last.sid) =>
       ENABLED (message_taken(sid) /\ UNCHANGED <<called, returned>>)


(***************************************************************************)
(* The language of a ConversationState                                     *)
(***************************************************************************)

\* the ConversationState objects of the run: those in conversation_states and
\* those a suspended handler still holds
ConversationStates ==
  {conversation_states[sid] : sid \in {x \in Sids : conversation_states[x] # Absent}}
    \cup {t.state : t \in {u \in BagToSet(tasks) : u.pc = "generate"}}

\* C28: in every reachable ConversationState, if the stage is not
\* LANGUAGE_SELECTION then language_mode is "english" or "hindi", and whenever
\* language_mode is set the collected language is its capitalised form.
C28_LanguageModeIsDefined ==
  \A state \in ConversationStates :
    /\ state.stage # "LANGUAGE_SELECTION" => state.language_mode \in PromptLanguages
    /\ state.language_mode # None =>
         /\ state.language_mode \in PromptLanguages
         /\ state.data.language =
              (IF state.language_mode = StrV(hindi) THEN Hindi ELSE English)

\* a restart in a Hindi dialogue: the new state is at LANGUAGE_SELECTION with
\* language_mode "hindi" and the language "Hindi"
C28_Witness ==
  \E sid \in Sids :
    /\ last.branch = "restart"
    /\ conversation_states[sid] # Absent
    /\ conversation_states[sid].stage = "LANGUAGE_SELECTION"
    /\ conversation_states[sid].language_mode = StrV(hindi)
    /\ conversation_states[sid].data.language = Hindi


(***************************************************************************)
(* parse_user_response called on its own                                   *)
(***************************************************************************)

\* the largest number an utterance of the numeric stages names
MaxNumber == 100

\* a number as the speech-to-text provider may write it: in ASCII digits, with
\* a leading zero, in Devanagari digits
devanagari(run) == [i \in 1..Len(run) |-> DevanagariDigits[DigitVal(run[i]) + 1]]
Numerals(n) == {str(n), <<"0">> \o str(n), devanagari(str(n))}

NumberPrefixes == {<<>>, <<"c","l","a","s","s"," ">>, <<"I"," ","t","h","i","n","k"," ","c","l","a","s","s"," ">>}
NumberSuffixes == {<<>>, <<" ","p","l","e","a","s","e">>, <<" ","m","i","n","u","t","e","s">>, <<" ","o","r"," ","5">>}

\* utterances with a number in them, and utterances without a digit
NumericTexts ==
  {p \o r \o x : p \in NumberPrefixes, r \in UNION {Numerals(n) : n \in 0..MaxNumber},
                 x \in NumberSuffixes}
    \cup {<<>>, <<"s","e","v","e","n">>, <<"m","i","n","u","t","e","s">>}

NumericStages == {"CLASS_COLLECTION", "SESSION_DURATION", "NUM_SESSIONS"}

\* utterances for SUBJECT_COLLECTION: every key of the table alone, in a
\* sentence and in capitals, every two keys together, and texts without a key
SubjectKeys == {subjects_map[k].key : k \in 1..Len(subjects_map)}
SubjectTexts ==
  SubjectKeys
    \cup {<<"I"," ","t","e","a","c","h"," ">> \o key : key \in SubjectKeys}
    \cup {[i \in 1..Len(key) |-> UpperChar(key[i])] : key \in SubjectKeys}
    \cup {a \o <<" ","a","n","d"," ">> \o b : a \in SubjectKeys, b \in SubjectKeys}
    \cup {<<>>, <<"x">>, <<"a","b">>, <<" ","a","b"," ">>, <<"a","r","t">>, <<"f","i","n","e"," ","a","r","t","s">>, nadi}

\* utterances for CONFIRMATION: every keyword alone, and sentences
ConfirmationTexts ==
  {yes_words[k] : k \in 1..Len(yes_words)}
    \cup {no_words[k] : k \in 1..Len(no_words)}
    \cup {<<>>, <<"m","a","y","b","e">>, <<"y","e","s"," ","p","l","e","a","s","e">>, <<"n","o","t"," ","o","k">>, <<"n","o",","," ","t","h","a","t"," ","i","s"," ","w","r","o","n","g">>, <<"u091C","u0940"," ","u0928","u0939","u0940","u0902">>, <<"u0920","u0940","u0915"," ","u0928","u0939","u0940","u0902"," ","u0939","u0948">>, <<"N","O">>}

ParseCalls ==
  {[fn |-> "parse_user_response", transcript |-> t, stage |-> stage] :
     t \in NumericTexts, stage \in NumericStages}
  \cup {[fn |-> "parse_user_response", transcript |-> t, stage |-> "SUBJECT_COLLECTION"] :
          t \in SubjectTexts}
  \cup {[fn |-> "parse_user_response", transcript |-> t, stage |-> "CONFIRMATION"] :
          t \in ConfirmationTexts}
  \cup {[fn |-> "parse_user_response", transcript |-> t, stage |-> stage] :
          t \in RawTexts, stage \in Stages}

InitParse ==
  /\ AtRest
  /\ called \in ParseCalls
  /\ returned = Idle

call_parse_user_response ==
  /\ called.fn = "parse_user_response"
  /\ returned = Idle
  /\ returned' = [fn |-> "parse_user_response",
                  value |-> parse_user_response(called.transcript, called.stage, None)]
  /\ UNCHANGED <<Dialogue, called>>

SpecParse == InitParse /\ [][call_parse_user_response]_vars


\* the call is of parse_user_response at the stage, has returned, and the
\* utterance has no restart keyword
Interpreting(stage) ==
  /\ returned.fn = "parse_user_response"
  /\ called.stage = stage
  /\ ~is_restart(strip(lower(called.transcript)))

\* the first run of digits of a text, <<>> when it has no digit
FirstDigitRun(text) ==
  LET digits == {i \in 1..Len(text) : IsDigit(text[i])} IN
  IF digits = {} THEN <<>>
  ELSE LET from == CHOOSE i \in digits : \A j \in digits : i <= j
           to == CHOOSE k \in from..Len(text) :
                   /\ (from..k) \subseteq digits
                   /\ (k + 1) \notin digits
       IN  SubSeq(text, from, to)

\* the number a run of digits writes, most significant digit first
RECURSIVE DecimalValue(_, _)
DecimalValue(run, acc) ==
  IF run = <<>> THEN acc
  ELSE DecimalValue(Tail(run), 10 * acc + DigitVal(Head(run)))

\* the first run of digits exists and its value is in lo..hi
FirstNumberIn(text, lo, hi) ==
  /\ FirstDigitRun(text) # <<>>
  /\ lo <= DecimalValue(FirstDigitRun(text), 0)
  /\ DecimalValue(FirstDigitRun(text), 0) <= hi

\* C25: at the three numeric stages the interpreter looks only at the first
\* run of digits: it accepts exactly when that run exists and its value is in
\* the range of the stage (1..12 giving "Class n", 15..90, 1..10 giving the
\* integer) and asks for clarification otherwise; "class 7 please" gives
\* "Class 7", "I think class 13" and "100 minutes" need clarification, "45"
\* gives 45.
C25_FirstDigitRunDecides ==
  LET text == called.transcript
      n == DecimalValue(FirstDigitRun(text), 0)
  IN
  /\ Interpreting("CLASS_COLLECTION") =>
       returned.value = IF FirstNumberIn(text, 1, 12)
                          THEN Result(StrV(ClassPrefix \o str(n)), FALSE)
                          ELSE Result(None, TRUE)
  /\ Interpreting("SESSION_DURATION") =>
       returned.value = IF FirstNumberIn(text, 15, 90) THEN Result(IntV(n), FALSE)
                        ELSE Result(None, TRUE)
  /\ Interpreting("NUM_SESSIONS") =>
       returned.value = IF FirstNumberIn(text, 1, 10) THEN Result(IntV(n), FALSE)
                        ELSE Result(None, TRUE)
  /\ (Interpreting("CLASS_COLLECTION") /\ text = <<"c","l","a","s","s"," ","7"," ","p","l","e","a","s","e">>) =>
       returned.value = Result(StrV(<<"C","l","a","s","s"," ","7">>), FALSE)
  /\ (Interpreting("CLASS_COLLECTION") /\ text = <<"I"," ","t","h","i","n","k"," ","c","l","a","s","s"," ","1","3">>) =>
       returned.value = Result(None, TRUE)
  /\ (Interpreting("SESSION_DURATION") /\ text = <<"1","0","0"," ","m","i","n","u","t","e","s">>) =>
       returned.value = Result(None, TRUE)
  /\ (Interpreting("SESSION_DURATION") /\ text = <<"4","5">>) =>
       returned.value = Result(IntV(45), FALSE)

\* "45 or 5" at SESSION_DURATION: the first run, 45, is taken and the later
\* run, which is out of the range, is ignored
C25_Witness ==
  /\ Interpreting("SESSION_DURATION")
  /\ called.transcript = <<"4","5"," ","o","r"," ","5">>
  /\ returned.value = Result(IntV(45), FALSE)


\* the places in the table of the keys that occur in a text
KeysIn(text) == {k \in 1..Len(subjects_map) : Contains(subjects_map[k].key, text)}

\* C26: at SUBJECT_COLLECTION the interpreter returns the canonical subject of
\* the first key of the table, in table order, that occurs in the lower-cased
\* utterance; when no key occurs it accepts the trimmed utterance title-cased
\* if that is longer than 2 characters, and asks for clarification otherwise.
C26_FirstKeyInTableOrderWins ==
  Interpreting("SUBJECT_COLLECTION") =>
    LET keys == KeysIn(strip(lower(called.transcript)))
        trimmed == strip(called.transcript)
    IN  IF keys # {}
          THEN \E k \in keys :
                 /\ \A j \in keys : k <= j
                 /\ returned.value = Result(StrV(subjects_map[k].value), FALSE)
        ELSE IF Len(trimmed) > 2
          THEN returned.value = Result(StrV(title(trimmed)), FALSE)
        ELSE returned.value = Result(None, TRUE)

\* "history and math": math is the earlier key of the table and wins, though
\* it comes later in the utterance
C26_Witness ==
  /\ Interpreting("SUBJECT_COLLECTION")
  /\ called.transcript = <<"h","i","s","t","o","r","y"," ","a","n","d"," ","m","a","t","h">>
  /\ returned.value = Result(StrV(Mathematics), FALSE)

\* C29: for every key of the table, the utterance that is exactly that key is
\* interpreted at SUBJECT_COLLECTION as the key's own canonical subject; no
\* entry is shadowed by an earlier one.
C29_EveryKeyGivesItsOwnSubject ==
  Interpreting("SUBJECT_COLLECTION") =>
    \A k \in 1..Len(subjects_map) :
      called.transcript = subjects_map[k].key =>
        returned.value = Result(StrV(subjects_map[k].value), FALSE)


\* C27: at CONFIRMATION the interpreter yields true when the utterance has an
\* affirmative keyword, false when it has a negative keyword, and asks for
\* clarification exactly when it has neither; an utterance with a negative
\* keyword never yields true.
C27_NegativeKeywordNeverConfirms ==
  Interpreting("CONFIRMATION") =>
    LET text == strip(lower(called.transcript))
        affirmative == ContainsAny(yes_words, text)
        negative == ContainsAny(no_words, text)
    IN  /\ (affirmative /\ ~negative) => returned.value = Result(BoolV(TRUE), FALSE)
        /\ negative => returned.value = Result(BoolV(FALSE), FALSE)
        /\ returned.value.needs_clarification <=> (~affirmative /\ ~negative)
        /\ negative => returned.value.value # BoolV(TRUE)


(***************************************************************************)
(* parse_llm_to_sessions: the sessions of a generated lesson plan          *)
(***************************************************************************)

\* str.find(sub): the first place of sub in s, counted from 1; 0 when absent
find(sub, s) ==
  LET places == {i \in 1..(Len(s) - Len(sub) + 1) : SubSeq(s, i, i + Len(sub) - 1) = sub}
  IN  IF places = {} THEN 0 ELSE CHOOSE i \in places : \A j \in places : i <= j

\* sep.join(items)
RECURSIVE join(_, _)
join(sep, items) ==
  IF items = <<>> THEN <<>>
  ELSE IF Len(items) = 1 THEN items[1]
  ELSE items[1] \o sep \o join(sep, Tail(items))

Dashes == <<"-","-","-">>

\* _extract_section(full, section_name)
extract_section(full, section_name) ==
  LET marker == Dashes \o section_name \o Dashes IN
  IF find(marker, full) = 0 THEN <<>>
  ELSE LET after == SubSeq(full, find(marker, full) + Len(marker), Len(full))
           next_idx == find(<<"\n">> \o Dashes, after)
       IN  IF next_idx = 0 THEN strip(after) ELSE strip(SubSeq(after, 1, next_idx - 1))

LEARNING_OBJECTIVES == <<"L","E","A","R","N","I","N","G"," ","O","B","J","E","C","T","I","V","E","S">>
LEARNING_OUTCOMES == <<"L","E","A","R","N","I","N","G"," ","O","U","T","C","O","M","E","S">>
TEACHING_AIDS == <<"T","E","A","C","H","I","N","G"," ","A","I","D","S","/","R","E","S","O","U","R","C","E","S">>
ACTIVITIES == <<"A","C","T","I","V","I","T","I","E","S">>
ASSESSMENT == <<"A","S","S","E","S","S","M","E","N","T">>
HOMEWORK == <<"H","O","M","E","W","O","R","K">>

Mins == <<" ","m","i","n","s">>
WorksheetPrefix == <<"W","o","r","k","s","h","e","e","t"," ">>
Semicolon == <<";"," ">>
CompetencyFallback == <<"C","o","m","p","e","t","e","n","c","y"," ","b","a","s","e","d"," ","o","n"," ","o","b","j","e","c","t","i","v","e","s">>
EloFallback == <<"E","x","p","e","c","t","e","d"," ","l","e","a","r","n","i","n","g"," ","o","u","t","c","o","m","e">>

\* pick(lst, i, fallback): lst[i % len(lst)] if lst else fallback, i from 0
pick(lst, i, fallback) == IF lst # <<>> THEN lst[(i % Len(lst)) + 1] ELSE fallback

\* the function with the activities of a session taken by position from the
\* list of all activities: a session without one has no activities entry
parse_llm_to_sessions_by_position(formatted_text, session_duration, num_sessions) ==
  LET act_list == lines_to_list(extract_section(formatted_text, ACTIVITIES))
  IN  [i \in 1..Len(act_list) |->
         [number |-> i, duration |-> str(session_duration) \o Mins,
          activities |-> <<act_list[i]>>]]

parse_llm_to_sessions(formatted_text, session_duration, num_sessions) ==
  LET obj_list == lines_to_list(extract_section(formatted_text, LEARNING_OBJECTIVES))
      out_list == lines_to_list(extract_section(formatted_text, LEARNING_OUTCOMES))
      res_list == lines_to_list(extract_section(formatted_text, TEACHING_AIDS))
      act_list == lines_to_list(extract_section(formatted_text, ACTIVITIES))
      assess_list == lines_to_list(extract_section(formatted_text, ASSESSMENT))
      hw_list == lines_to_list(extract_section(formatted_text, HOMEWORK))
      act_n == split_into_n(act_list, num_sessions)
      res_n == split_into_n(res_list, num_sessions)
      assess_n == split_into_n(assess_list, num_sessions)
  IN  [i \in 1..num_sessions |->
         [ number |-> i,
           duration |-> str(session_duration) \o Mins,
           competency |-> pick(obj_list, i - 1, CompetencyFallback),
           elo |-> pick(out_list, i - 1, EloFallback),
           activities |-> act_n[i],
           resources_tlm |-> IF res_n[i] # <<Dash>> THEN join(Semicolon, res_n[i]) ELSE Dash,
           e_resources |-> <<>>,
           worksheets |-> WorksheetPrefix \o str(i),
           assessment |-> IF assess_n[i] # <<Dash>> THEN join(Semicolon, assess_n[i])
                          ELSE IF hw_list # <<>> THEN join(Semicolon, hw_list) ELSE Dash ] ]

\* the most sessions a request can ask for
MaxNumSessions == 10
\* the most lines a section of a lesson text has
MaxLines == 11

\* a section of a lesson text with n bulleted lines; nothing when n is -1
RECURSIVE BulletLines(_, _)
BulletLines(letter, n) ==
  IF n = 0 THEN <<>>
  ELSE BulletLines(letter, n - 1) \o <<"-"," ",letter>> \o str(n) \o <<"\n">>
SectionText(section_name, letter, n) ==
  IF n < 0 THEN <<>>
  ELSE Dashes \o section_name \o Dashes \o <<"\n">> \o BulletLines(letter, n) \o <<"\n">>

\* lesson texts: each section missing or with some lines, the activities with
\* every number of lines from none to MaxLines
LessonTexts ==
  { SectionText(LEARNING_OBJECTIVES, "o", o) \o SectionText(LEARNING_OUTCOMES, "u", o - 1)
      \o SectionText(TEACHING_AIDS, "r", r) \o SectionText(ACTIVITIES, "a", a)
      \o SectionText(ASSESSMENT, "s", x) \o SectionText(HOMEWORK, "h", h) :
    o \in {-1, 2}, r \in {-1, 1, 3}, a \in (-1)..MaxLines, x \in {-1, 2}, h \in {-1, 1} }

InitSessions ==
  /\ AtRest
  /\ called \in {[fn |-> "parse_llm_to_sessions", formatted_text |-> text,
                  session_duration |-> DefaultSessionDuration, num_sessions |-> n] :
                   text \in LessonTexts, n \in 1..MaxNumSessions}
  /\ returned = Idle

call_parse_llm_to_sessions ==
  /\ called.fn = "parse_llm_to_sessions"
  /\ returned = Idle
  /\ returned' = [fn |-> "parse_llm_to_sessions",
                  value |-> parse_llm_to_sessions(called.formatted_text,
                                                  called.session_duration,
                                                  called.num_sessions)]
  /\ UNCHANGED <<Dialogue, called>>

SpecSessions == InitSessions /\ [][call_parse_llm_to_sessions]_vars

\* the lines of the activities section of a text, counted in the text itself
ActivityLines(text) ==
  Cardinality({i \in 1..(Len(text) - 2) : SubSeq(text, i, i + 2) = <<"-"," ","a">>})

\* C21: for every num_sessions from 1 to 10 and every lesson text, with no,
\* fewer, as many or more items than sessions in its sections or with the
\* sections missing, parse_llm_to_sessions returns exactly num_sessions
\* records numbered 1..num_sessions in order, each with a non-empty
\* activities list (["-"] when no activity fell to the session).
C21_ExactlyNumSessionsRecords ==
  returned.fn = "parse_llm_to_sessions" =>
    LET out == returned.value
        n == called.num_sessions
        lines == ActivityLines(called.formatted_text)
    IN  /\ Len(out) = n
        /\ \A i \in 1..n :
             /\ out[i].number = i
             /\ out[i].activities # <<>>
             /\ (i > lines) <=> (out[i].activities = <<Dash>>)

\* a text with two activities planned in four sessions: the third and the
\* fourth session have the placeholder
C21_Witness ==
  /\ returned.fn = "parse_llm_to_sessions"
  /\ called.num_sessions = 4
  /\ ActivityLines(called.formatted_text) = 2
  /\ returned.value[2].activities = <<<<"a","2">>>>
  /\ returned.value[3].activities = <<Dash>>
  /\ returned.value[4].activities = <<Dash>>


(***************************************************************************)
(* build_lesson_data_from_formatted: the worksheets linked to the sessions *)
(***************************************************************************)

\* the linking with the worksheet looked up by its number, not by its place
build_lesson_data_by_number(formatted, session_duration, num_sessions, worksheets) ==
  LET sessions == parse_llm_to_sessions(formatted, session_duration, num_sessions)
      numbered(i) == {j \in 1..Len(worksheets) : worksheets[j].number = i}
  IN  [ sessions |->
          [i \in 1..Len(sessions) |->
             IF numbered(i) # {}
               THEN LET j == CHOOSE j \in numbered(i) : \A k \in numbered(i) : j <= k
                    IN  [worksheet_data |-> worksheets[j]]
                          @@ [sessions[i] EXCEPT !.worksheets = worksheets[j].title]
               ELSE sessions[i]],
        formatted_text |-> formatted,
        worksheets |-> worksheets ]

\* build_lesson_data_from_formatted with the list generate_worksheets returned
\* as a parameter; the header, the video links and the web resources, which
\* the linking neither reads nor writes, are left out
build_lesson_data_from_formatted(formatted, session_duration, num_sessions, worksheets) ==
  LET sessions == parse_llm_to_sessions(formatted, session_duration, num_sessions)
  IN  [ sessions |->
          [i \in 1..Len(sessions) |->
             IF i - 1 < Len(worksheets)
               THEN [worksheet_data |-> worksheets[i]]
                      @@ [sessions[i] EXCEPT
                            !.worksheets = IF "title" \in DOMAIN worksheets[i]
                                             THEN worksheets[i].title
                                             ELSE WorksheetPrefix \o str(i)]
               ELSE sessions[i]],
        formatted_text |-> formatted,
        worksheets |-> worksheets ]

\* the most worksheets the generator comes back with
MaxWorksheets == 5

\* a worksheet record: its number and its title (the remaining fields of the
\* record are carried along unread)
Worksheet(number, name) ==
  [number |-> number, title |-> <<"T", name>>, content |-> <<"c", name>>]
SomeWorksheets == {Worksheet(1, "x"), Worksheet(2, "y"), Worksheet(1, "z")}
WorksheetLists == SeqsUpTo(SomeWorksheets, MaxWorksheets)

InitLessonData ==
  /\ AtRest
  /\ called \in {[fn |-> "build_lesson_data_from_formatted",
                  formatted |-> SectionText(ACTIVITIES, "a", a),
                  session_duration |-> DefaultSessionDuration,
                  num_sessions |-> n, worksheets |-> worksheets] :
                   a \in {-1, 2}, n \in 1..MaxNumSessions, worksheets \in WorksheetLists}
  /\ returned = Idle

call_build_lesson_data_from_formatted ==
  /\ called.fn = "build_lesson_data_from_formatted"
  /\ returned = Idle
  /\ returned' = [fn |-> "build_lesson_data_from_formatted",
                  value |-> build_lesson_data_from_formatted(
                              called.formatted, called.session_duration,
                              called.num_sessions, called.worksheets)]
  /\ UNCHANGED <<Dialogue, called>>

SpecLessonData == InitLessonData /\ [][call_build_lesson_data_from_formatted]_vars

\* C30: linking worksheets to sessions works for every worksheet count:
\* session i takes the title and the data of the i-th worksheet when there is
\* one, a session beyond the worksheets keeps "Worksheet i" and has no
\* worksheet data, worksheets beyond num_sessions are linked to no session,
\* and the number of sessions is not changed.
C30_WorksheetsLinkedByPosition ==
  returned.fn = "build_lesson_data_from_formatted" =>
    LET sessions == returned.value.sessions
        worksheets == called.worksheets
        n == called.num_sessions
    IN  /\ Len(sessions) = n
        /\ returned.value.worksheets = worksheets
        /\ \A i \in 1..n :
             /\ sessions[i].number = i
             /\ IF i <= Len(worksheets)
                  THEN /\ sessions[i].worksheets = worksheets[i].title
                       /\ "worksheet_data" \in DOMAIN sessions[i]
                       /\ sessions[i].worksheet_data = worksheets[i]
                  ELSE /\ sessions[i].worksheets = WorksheetPrefix \o str(i)
                       /\ "worksheet_data" \notin DOMAIN sessions[i]

\* three worksheets numbered 2, 1, 1 for two sessions: the first session has
\* the worksheet numbered 2, the third worksheet is linked to no session
C30_Witness ==
  /\ returned.fn = "build_lesson_data_from_formatted"
  /\ called.num_sessions = 2
  /\ called.worksheets = <<Worksheet(2, "y"), Worksheet(1, "x"), Worksheet(1, "z")>>
  /\ returned.value.sessions[1].worksheet_data = Worksheet(2, "y")
  /\ returned.value.sessions[2].worksheet_data = Worksheet(1, "x")


(***************************************************************************)
(* parse_worksheets: the worksheets cut out of the generated text          *)
(***************************************************************************)

WORKSHEET == <<"W","O","R","K","S","H","E","E","T">>
END_WORKSHEET == <<"E","N","D"," ","W","O","R","K","S","H","E","E","T"," ">>
EqualsFence == <<"=","=","=">>
DashFence == <<"-","-","-">>

\* the four marker patterns in the order the code tries them: what stands
\* before WORKSHEET and what stands after the number
patterns ==
  << [open |-> EqualsFence, close |-> EqualsFence],
     [open |-> DashFence, close |-> DashFence],
     [open |-> <<>>, close |-> <<":">>],
     [open |-> <<"*","*">>, close |-> <<"*","*">>] >>

\* the literal lit stands in text at place p (re.IGNORECASE)
LiteralAt(lit, text, p) ==
  /\ p + Len(lit) - 1 <= Len(text)
  /\ \A k \in 1..Len(lit) : LowerChar(text[p + k - 1]) = LowerChar(lit[k])

\* the place after the longest run of whitespace (\s*) and of digits (\d*)
\* that starts at place p
AfterSpaces(text, p) ==
  LET stops == {k \in p..Len(text) : ~IsSpace(text[k])}
  IN  IF stops = {} THEN max(p, Len(text) + 1)
      ELSE CHOOSE k \in stops : \A j \in stops : k <= j
AfterDigits(text, p) ==
  LET stops == {k \in p..Len(text) : ~IsDigit(text[k])}
  IN  IF stops = {} THEN max(p, Len(text) + 1)
      ELSE CHOOSE k \in stops : \A j \in stops : k <= j

NoMatch == [last |-> 0]

\* re.match of open WORKSHEET \s+ (\d+) close at place p: the number and the
\* place of the last character matched
MarkerAt(pattern, text, p) ==
  LET head == pattern.open \o WORKSHEET
      s == p + Len(head)
      d == AfterSpaces(text, s)
      e == AfterDigits(text, d)
  IN  IF LiteralAt(head, text, p) /\ d > s /\ e > d /\ LiteralAt(pattern.close, text, e)
        THEN [last |-> e + Len(pattern.close) - 1, group |-> SubSeq(text, d, e - 1)]
        ELSE NoMatch

\* re.split(pattern, text, flags=re.IGNORECASE) from place p on, the piece
\* in progress starting at place start: the text before a match, the number
\* of the match, and so on
RECURSIVE re_split(_, _, _, _)
re_split(pattern, text, p, start) ==
  IF p > Len(text) THEN <<SubSeq(text, start, Len(text))>>
  ELSE LET m == MarkerAt(pattern, text, p)
       IN  IF m.last = 0 THEN re_split(pattern, text, p + 1, start)
           ELSE <<SubSeq(text, start, p - 1), m.group>>
                  \o re_split(pattern, text, m.last + 1, m.last + 1)

\* re.match of fence END WORKSHEET \d+ fence at place p: the place of the
\* last character matched, 0 when there is no match
EndMarkerAt(fence, text, p) ==
  LET head == fence \o END_WORKSHEET
      d == p + Len(head)
      e == AfterDigits(text, d)
  IN  IF LiteralAt(head, text, p) /\ e > d /\ LiteralAt(fence, text, e)
        THEN e + Len(fence) - 1
        ELSE 0

\* re.sub(fence END WORKSHEET \d+ fence, "", text, flags=re.IGNORECASE)
RECURSIVE re_sub_end(_, _, _)
re_sub_end(fence, text, p) ==
  IF p > Len(text) THEN <<>>
  ELSE LET stop == EndMarkerAt(fence, text, p)
       IN  IF stop = 0 THEN <<text[p]>> \o re_sub_end(fence, text, p + 1)
           ELSE re_sub_end(fence, text, stop + 1)

\* text.split("\n\n") from place p on, the chunk in progress starting at start
RECURSIVE split_blank_line(_, _, _)
split_blank_line(text, p, start) ==
  IF p + 1 > Len(text) THEN <<SubSeq(text, start, Len(text))>>
  ELSE IF text[p] = "\n" /\ text[p + 1] = "\n"
    THEN <<SubSeq(text, start, p - 1)>> \o split_blank_line(text, p + 2, p + 2)
    ELSE split_blank_line(text, p + 1, start)

\* lst[start:end] with 0 <= start
slice(lst, start, end) == SubSeq(lst, start + 1, min(end, Len(lst)))

BlankLine == <<"\n", "\n">>

\* parse_worksheets(worksheet_text, topic, num_sessions): the number and the
\* content of every record; the title, the objective, the duration and the
\* sections are read out of the content and do not change it
parse_worksheets(worksheet_text, num_sessions) ==
  LET splits == [k \in 1..Len(patterns) |-> re_split(patterns[k], worksheet_text, 1, 1)]
      matching == {k \in 1..Len(patterns) : Len(splits[k]) > 1}
      sections == IF matching = {} THEN splits[Len(patterns)]
                  ELSE splits[CHOOSE k \in matching : \A j \in matching : k <= j]
      marked ==
        [j \in 1..((Len(sections) - 1) \div 2) |->
           LET ws_num == strip(sections[2 * j])
               ws_content == re_sub_end(DashFence,
                               re_sub_end(EqualsFence, strip(sections[2 * j + 1]), 1), 1)
           IN  [number |-> int(ws_num), content |-> ws_content]]
      content_chunks == split_blank_line(worksheet_text, 1, 1)
      chunk_size == IF Len(content_chunks) >= num_sessions
                      THEN Len(content_chunks) \div num_sessions ELSE 1
      chunked ==
        [j \in 1..num_sessions |->
           LET i == j - 1
               start_idx == i * chunk_size
               end_idx == IF i < num_sessions - 1 THEN start_idx + chunk_size
                          ELSE Len(content_chunks)
               chunk_content == join(BlankLine, slice(content_chunks, start_idx, end_idx))
           IN  [number |-> i + 1,
                content |-> IF strip(chunk_content) # <<>> THEN chunk_content
                            ELSE worksheet_text]]
  IN  IF marked # <<>> THEN marked ELSE chunked

\* the most pieces a generated text is put together from
MaxPieces == 3

\* pieces of a generated worksheet text: markers of the four styles, end
\* markers, paragraphs and blank lines
TextPieces ==
  { <<"=","=","=","W","O","R","K","S","H","E","E","T"," ","1","=","=","=">>, <<"=","=","=","W","O","R","K","S","H","E","E","T"," ","2","=","=","=">>, <<"=","=","=","w","o","r","k","s","h","e","e","t"," "," ","1","=","=","=">>, <<"-","-","-","W","O","R","K","S","H","E","E","T"," ","1","-","-","-">>, <<"W","O","R","K","S","H","E","E","T"," ","2",":">>, <<"*","*","W","O","R","K","S","H","E","E","T"," ","1","*","*">>, <<"=","=","=","E","N","D"," ","W","O","R","K","S","H","E","E","T"," ","1","=","=","=">>, <<"\n","a","b","\n">>, <<"c"," ","d">>, BlankLine }

\* four well-formed blocks
Block(k) ==
  EqualsFence \o WORKSHEET \o <<" ">> \o str(k) \o EqualsFence \o <<"\n", "q">> \o str(k)
    \o <<"\n">> \o EqualsFence \o END_WORKSHEET \o str(k) \o EqualsFence \o BlankLine
FourBlocks == join(<<>>, [k \in 1..4 |-> Block(k)])

\* a text of k paragraphs
Paragraphs(k) == join(BlankLine, [i \in 1..k |-> <<"p">> \o str(i)])

WorksheetTexts ==
  {join(<<>>, pieces) : pieces \in SeqsUpTo(TextPieces, MaxPieces)}
    \cup {FourBlocks} \cup {Paragraphs(k) : k \in 1..(2 * MaxPieces)}

InitWorksheets ==
  /\ AtRest
  /\ called \in {[fn |-> "parse_worksheets", worksheet_text |-> text, num_sessions |-> n] :
                   text \in WorksheetTexts, n \in 1..MaxNumSessions}
  /\ returned = Idle

call_parse_worksheets ==
  /\ called.fn = "parse_worksheets"
  /\ returned = Idle
  /\ returned' = [fn |-> "parse_worksheets",
                  value |-> parse_worksheets(called.worksheet_text, called.num_sessions)]
  /\ UNCHANGED <<Dialogue, called>>

SpecWorksheets == InitWorksheets /\ [][call_parse_worksheets]_vars


\* some marker of one of the four styles stands in text
HasMarker(text) ==
  \E k \in 1..Len(patterns) : \E p \in 1..Len(text) : MarkerAt(patterns[k], text, p).last # 0

\* the numbers in the markers of the first style that stands in text, in the
\* order of the text
MarkerNumbers(text) ==
  LET k == CHOOSE k \in 1..Len(patterns) :
             /\ Len(re_split(patterns[k], text, 1, 1)) > 1
             /\ \A j \in 1..(k - 1) : Len(re_split(patterns[j], text, 1, 1)) = 1
      sections == re_split(patterns[k], text, 1, 1)
  IN  [j \in 1..((Len(sections) - 1) \div 2) |-> int(sections[2 * j])]

\* C22: when the text has worksheet markers, parse_worksheets returns one
\* record per distinct worksheet number matched: as many records as there
\* are distinct numbers, each numbered as its marker, in the order of the
\* text; four well-formed ===WORKSHEET n=== blocks give records 1, 2, 3, 4.
C22_OneRecordPerDistinctNumber ==
  (returned.fn = "parse_worksheets" /\ HasMarker(called.worksheet_text)) =>
    LET numbers == MarkerNumbers(called.worksheet_text)
        out == returned.value
    IN  /\ Len(out) = Cardinality({numbers[j] : j \in 1..Len(numbers)})
        /\ \A j \in 1..min(Len(out), Len(numbers)) : out[j].number = numbers[j]
        /\ called.worksheet_text = FourBlocks =>
             [j \in 1..Len(out) |-> out[j].number] = <<1, 2, 3, 4>>

\* a string without its whitespace
NoWhitespace(s) == SelectSeq(s, LAMBDA c : ~IsSpace(c))

\* C23: for a text without any worksheet marker parse_worksheets returns
\* num_sessions records numbered 1..num_sessions whose contents, put one
\* after the other, are the text again up to whitespace: nothing of the
\* text is lost and nothing is repeated.
C23_ChunksReconstructTheText ==
  (returned.fn = "parse_worksheets" /\ ~HasMarker(called.worksheet_text)) =>
    LET out == returned.value
    IN  /\ Len(out) = called.num_sessions
        /\ \A j \in 1..Len(out) : out[j].number = j
        /\ NoWhitespace(join(<<>>, [j \in 1..Len(out) |-> out[j].content]))
             = NoWhitespace(called.worksheet_text)

\* C24: every record parse_worksheets returns, on the marker path and on
\* the fallback path, has a content that is not empty.
C24_ContentIsNeverEmpty ==
  returned.fn = "parse_worksheets" =>
    \A j \in 1..Len(returned.value) : returned.value[j].content # <<>>

====
